---- MODULE Spec2Model ----
(***************************************************************************)
(* Chemical-formula parser (gsapdef/chem.py), the Material built on it     *)
(* (gsapdef/material.py), the sections made of Materials                   *)
(* (samplmodls/layer.py) and the Profile made of sections                  *)
(* (gsapdef/profile.py, samplmodls/profile.py), a run of the parser one    *)
(* statement at a time, and the LayerArgs of layermodels/models/layer.py.  *)
(*                                                                         *)
(* A Python str is a sequence of one-character strings.  Indices keep      *)
(* Python's 0-based values: source[i] in the code is At(source, i) here.   *)
(* A Python float obtained from a digit/'.' run is the exact decimal       *)
(* [m, e] = m / 10^e in lowest form (no trailing zero in the fraction);    *)
(* for runs of at most 15 significant digits the conversion to an IEEE     *)
(* double is injective and order-preserving, so equality, comparison with  *)
(* 0 and 1 and the integrality test agree with the double's.               *)
(***************************************************************************)
EXTENDS Integers, Sequences, FiniteSets, TLC

VARIABLES
    source,     \* the str given to Formula.from_string
    parsed,     \* what Formula.from_string returned
    called,     \* the functions and methods called so far
    elems,      \* what Formula.elements returned
    cnts,       \* what Formula.counts returned
    chem,       \* what Formula.is_chem_valid returned
    material,   \* a Material: its fields code, density, composition
    ctype,      \* what Material.composition_type returned
    verdict,    \* what Material.validate returned
    section,    \* a Medium, Substrate, Layer or MultiLayer a caller constructed
    profile,    \* a Profile a caller constructed: the list of its sections
    outcome,    \* what validate() of the section or of the profile returned
    variant,    \* what validate() of samplmodls.profile.Profile returned
    flat,       \* what Profile.flatten returned
    frames,     \* the call stack of a running Formula.from_string
    ret,        \* the call that returned last (by) and what it returned (result)
    args,       \* a LayerArgs a caller constructed
    report      \* what LayerArgs.validate returned

formulaVars == <<source, parsed, elems, cnts, chem>>

materialVars == <<material, ctype, verdict>>

sampleVars == <<section, profile, outcome, variant, flat>>

runVars == <<frames, ret, args, report>>

vars == <<formulaVars, materialVars, sampleVars, runVars, called>>

----------------------------------------------------------------------------
(* Bounds of the model *)

\* longest source string given to Formula.from_string
MaxLen == 5

\* most parts a Material code is put together from
MaxParts == 3

\* the characters the source strings are drawn from
Alphabet == {"A", "b", "(", ")", "0", "5", ".", "/"}

Strings(n) == UNION {[1..k -> Alphabet] : k \in 0..n}

----------------------------------------------------------------------------
(* str methods *)

UpperLetters == {"A", "B", "C", "D", "E", "F", "G", "H", "I", "J", "K", "L", "M",
                 "N", "O", "P", "Q", "R", "S", "T", "U", "V", "W", "X", "Y", "Z"}

LowerLetters == {"a", "b", "c", "d", "e", "f", "g", "h", "i", "j", "k", "l", "m",
                 "n", "o", "p", "q", "r", "s", "t", "u", "v", "w", "x", "y", "z"}

Digits == {"0", "1", "2", "3", "4", "5", "6", "7", "8", "9"}

isupper(char) == char \in UpperLetters

islower(char) == char \in LowerLetters

isalpha(char) == char \in UpperLetters \cup LowerLetters

isdigit(char) == char \in Digits

\* source[i]
At(s, i) == s[i + 1]

\* source[a:b]
Slice(s, a, b) == SubSeq(s, a + 1, b)

----------------------------------------------------------------------------
(* returns.result *)

Success(v) == [ok |-> TRUE, value |-> v]

Failure(e) == [ok |-> FALSE, error |-> e]

\* ValueError whose message cites "@index i"
ValueError(kind, index) == [exc |-> "ValueError", kind |-> kind, index |-> index]

\* IndexError(f"Expected a number @index {start}")
IndexError(kind, index) == [exc |-> "IndexError", kind |-> kind, index |-> index]

\* the ValueError float() raises: its message quotes the text, not an index
FloatError == [exc |-> "ValueError", kind |-> "could not convert string to float"]

----------------------------------------------------------------------------
(* float(text) for a run of digits with at most one '.' *)

DigitValue(c) ==
    CASE c = "0" -> 0 [] c = "1" -> 1 [] c = "2" -> 2 [] c = "3" -> 3 [] c = "4" -> 4
      [] c = "5" -> 5 [] c = "6" -> 6 [] c = "7" -> 7 [] c = "8" -> 8 [] c = "9" -> 9

RECURSIVE DigitsToInt(_)
DigitsToInt(ds) ==
    IF ds = <<>> THEN 0
    ELSE DigitsToInt(SubSeq(ds, 1, Len(ds) - 1)) * 10 + DigitValue(ds[Len(ds)])

RECURSIVE Pow10(_)
Pow10(n) == IF n = 0 THEN 1 ELSE 10 * Pow10(n - 1)

\* the decimal m / 10^e in lowest form
RECURSIVE Normalize(_, _)
Normalize(m, e) ==
    IF m = 0 THEN [m |-> 0, e |-> 0]
    ELSE IF e > 0 /\ m % 10 = 0 THEN Normalize(m \div 10, e - 1)
    ELSE [m |-> m, e |-> e]

float(text) ==
    LET digits == SelectSeq(text, isdigit)
        dots   == {i \in 1..Len(text) : text[i] = "."}
        e      == IF dots = {} THEN 0 ELSE Len(text) - (CHOOSE i \in dots : TRUE)
    IN  IF digits = <<>> THEN Failure(FloatError)
        ELSE Success(Normalize(DigitsToInt(digits), e))

One == [m |-> 1, e |-> 0]

\* x <= 0 (a parsed number is never negative)
NonPositive(x) == x.m <= 0

\* x % 1 == 0.0
IsIntegral(x) == x.e = 0

\* 0.0 < x < 1.0
IsProperFraction(x) == 0 < x.m /\ x.m < Pow10(x.e)

\* int(x)
IntPart(x) == x.m \div Pow10(x.e)

----------------------------------------------------------------------------
(* Component tree *)

Element(symbol, count) == [kind |-> "Element", symbol |-> symbol, count |-> count]

Group(components, count) == [kind |-> "Group", components |-> components, count |-> count]

----------------------------------------------------------------------------
(* extract_number *)

\* the while loop of extract_number: where it stops, and whether it stopped
\* on a second '.'
RECURSIVE scan_number(_, _, _)
scan_number(src, index, decimal_found) ==
    IF index >= Len(src) THEN [second_dot |-> FALSE, index |-> index]
    ELSE LET char == At(src, index)
         IN  IF ~isdigit(char) /\ char # "."
             THEN [second_dot |-> FALSE, index |-> index]
             ELSE IF char = "." /\ decimal_found
             THEN [second_dot |-> TRUE, index |-> index]
             ELSE scan_number(src, index + 1, decimal_found \/ char = ".")

extract_number(src, start) ==
    LET convert(number, index) ==
            IF number.ok THEN Success(<<number.value, index>>)
            ELSE Failure(number.error)
        after_loop(scan) ==
            IF scan.second_dot
            THEN Failure(ValueError("multiple decimals", scan.index))
            ELSE IF scan.index = start
            THEN Failure(IndexError("expected a number", start))
            ELSE convert(float(Slice(src, start, scan.index)), scan.index)
    IN  after_loop(scan_number(src, start, FALSE))

----------------------------------------------------------------------------
(* extract_component *)

\* the while loop of extract_component: index past the lowercase letters
RECURSIVE scan_lower(_, _)
scan_lower(src, index) ==
    IF index >= Len(src) THEN index
    ELSE IF ~islower(At(src, index)) THEN index
    ELSE scan_lower(src, index + 1)

\* the optional subscript after an element symbol or a ')': <<count, index>>,
\* count 1.0 and the index unchanged when extract_number fails with IndexError
subscript(src, index) ==
    LET or_default(num_result) ==
            IF num_result.ok THEN Success(num_result.value)
            ELSE IF num_result.error.exc # "IndexError" THEN Failure(num_result.error)
            ELSE Success(<<One, index>>)
    IN  or_default(extract_number(src, index))

\* extract_component without its "Subscript must be > 0" test
extract_component_any_count(src, start) ==
    LET element(symbol, sub) ==
            IF ~sub.ok THEN Failure(sub.error)
            ELSE Success(<<Element(symbol, sub.value[1]), sub.value[2]>>)
        after_symbol(index) ==
            element(Slice(src, start, index), subscript(src, index))
    IN  IF ~isupper(At(src, start))
        THEN Failure(ValueError("element must start uppercase", start))
        ELSE after_symbol(scan_lower(src, start + 1))

extract_component(src, start) ==
    LET element(symbol, sub) ==
            IF ~sub.ok THEN Failure(sub.error)
            ELSE IF NonPositive(sub.value[1])
            THEN Failure(ValueError("subscript must be > 0", sub.value[2]))
            ELSE Success(<<Element(symbol, sub.value[1]), sub.value[2]>>)
        after_symbol(index) ==
            element(Slice(src, start, index), subscript(src, index))
    IN  IF ~isupper(At(src, start))
        THEN Failure(ValueError("element must start uppercase", start))
        ELSE after_symbol(scan_lower(src, start + 1))

----------------------------------------------------------------------------
(* parse_section and extract_group *)

RECURSIVE parse_section_loop(_, _, _), extract_group(_, _)

\* the while loop of parse_section
parse_section_loop(src, index, components) ==
    LET char == At(src, index)
        after_extract(res) ==
            IF ~res.ok THEN Failure(res.error)
            ELSE IF res.value[2] = index
            THEN Failure(ValueError("no progress", index))
            ELSE parse_section_loop(src, res.value[2], Append(components, res.value[1]))
    IN  IF ~(index < Len(src) /\ At(src, index) # ")")
        THEN Success(<<components, index>>)
        ELSE IF ~isalpha(char) /\ char # "("
        THEN Failure(ValueError("unexpected character", index))
        ELSE after_extract(IF isalpha(char) THEN extract_component(src, index)
                           ELSE extract_group(src, index))

parse_section(src, start) == parse_section_loop(src, start, <<>>)

\* extract_group without its "Subscript must be > 0" test
extract_group_any_count(src, start) ==
    LET group(comps, sub) ==
            IF ~sub.ok THEN Failure(sub.error)
            ELSE Success(<<Group(comps, sub.value[1]), sub.value[2]>>)
        after_section(section_result) ==
            IF ~section_result.ok THEN Failure(section_result.error)
            ELSE IF \/ section_result.value[2] >= Len(src)
                    \/ At(src, section_result.value[2]) # ")"
            THEN Failure(ValueError("unmatched (", section_result.value[2]))
            ELSE group(section_result.value[1],
                       subscript(src, section_result.value[2] + 1))
    IN  IF At(src, start) # "("
        THEN Failure(ValueError("group must start with (", start))
        ELSE after_section(parse_section(src, start + 1))

extract_group(src, start) ==
    LET group(comps, sub) ==
            IF ~sub.ok THEN Failure(sub.error)
            ELSE IF NonPositive(sub.value[1])
            THEN Failure(ValueError("subscript must be > 0", sub.value[2]))
            ELSE Success(<<Group(comps, sub.value[1]), sub.value[2]>>)
        after_section(section_result) ==
            IF ~section_result.ok THEN Failure(section_result.error)
            ELSE IF \/ section_result.value[2] >= Len(src)
                    \/ At(src, section_result.value[2]) # ")"
            THEN Failure(ValueError("unmatched (", section_result.value[2]))
            ELSE group(section_result.value[1],
                       subscript(src, section_result.value[2] + 1))
    IN  IF At(src, start) # "("
        THEN Failure(ValueError("group must start with (", start))
        ELSE after_section(parse_section(src, start + 1))

----------------------------------------------------------------------------
(* parse_formula and Formula.from_string *)

\* parse_formula without its test for characters left after the section
parse_formula_ignores_rest(src) ==
    LET whole(res) == IF ~res.ok THEN Failure(res.error) ELSE Success(res.value[1])
    IN  whole(parse_section(src, 0))

parse_formula(src) ==
    LET whole(res) ==
            IF ~res.ok THEN Failure(res.error)
            ELSE IF res.value[2] # Len(src)
            THEN Failure(ValueError("unexpected characters at end", res.value[2]))
            ELSE Success(res.value[1])
    IN  whole(parse_section(src, 0))

from_string(src) ==
    LET wrap(res) == IF res.ok THEN Success(res.value) ELSE Failure(res.error)
    IN  wrap(parse_formula(src))

----------------------------------------------------------------------------
(* Formula.elements, Formula.counts, Formula.is_chem_valid *)

\* the list elems of Formula.elements before set() removes the duplicates
RECURSIVE elems_of(_)
elems_of(self) ==
    IF self = <<>> THEN <<>>
    ELSE LET comp == Head(self)
         IN  (IF comp.kind = "Element" THEN <<comp.symbol>>
              ELSE elems_of(comp.components)) \o elems_of(Tail(self))

Range(seq) == {seq[i] : i \in DOMAIN seq}

\* elements() returning the list elems itself, duplicates kept
elements_with_duplicates(self) == {elems_of(self)}

\* list(set(elems)): every order of the distinct symbols (str hashes are
\* salted per process, so the iteration order of the set is not fixed)
elements(self) ==
    LET s == Range(elems_of(self))
    IN  {order \in [1..Cardinality(s) -> s] : Range(order) = s}

\* counts() in which a Group contributes its own count only
RECURSIVE counts_flat(_)
counts_flat(self) ==
    IF self = <<>> THEN <<>>
    ELSE <<Head(self).count>> \o counts_flat(Tail(self))

RECURSIVE counts(_)
counts(self) ==
    IF self = <<>> THEN <<>>
    ELSE LET comp == Head(self)
         IN  <<IF comp.kind = "Element" THEN comp.count
               ELSE [inner |-> counts(comp.components), count |-> comp.count]>>
             \o counts(Tail(self))

\* is_chem_valid() that also demands an integral subscript of every Group
RECURSIVE is_chem_valid_groups_too(_)
is_chem_valid_groups_too(self) ==
    IF self = <<>> THEN TRUE
    ELSE LET comp == Head(self)
         IN  IF ~IsIntegral(comp.count) \/ NonPositive(comp.count) THEN FALSE
             ELSE IF comp.kind = "Group" /\ ~is_chem_valid_groups_too(comp.components)
             THEN FALSE
             ELSE is_chem_valid_groups_too(Tail(self))

RECURSIVE is_chem_valid(_)
is_chem_valid(self) ==
    IF self = <<>> THEN TRUE
    ELSE LET comp == Head(self)
         IN  IF comp.kind = "Element"
             THEN IF ~IsIntegral(comp.count) \/ NonPositive(comp.count) THEN FALSE
                  ELSE is_chem_valid(Tail(self))
             ELSE IF ~is_chem_valid(comp.components) THEN FALSE
                  ELSE is_chem_valid(Tail(self))

----------------------------------------------------------------------------
(* Formula: a caller parses a source string and calls the methods of the   *)
(* Formula it got                                                          *)

NotCalled == [called |-> FALSE]

\* no section was constructed
NoSection == [kind |-> "None"]

Init ==
    /\ source \in Strings(MaxLen)
    /\ parsed = NotCalled
    /\ called = {}
    /\ elems = <<>>
    /\ cnts = <<>>
    /\ chem = FALSE
    /\ material = NotCalled
    /\ ctype = "UNKNOWN"
    /\ verdict = NotCalled
    /\ section = NoSection
    /\ profile = <<>>
    /\ outcome = NotCalled
    /\ variant = NotCalled
    /\ flat = NotCalled
    /\ frames = <<>>
    /\ ret = NotCalled
    /\ args = NotCalled
    /\ report = NotCalled

\* res = Formula.from_string(source)
FromString ==
    /\ "from_string" \notin called
    /\ parsed' = from_string(source)
    /\ called' = called \cup {"from_string"}
    /\ UNCHANGED <<source, elems, cnts, chem, materialVars, sampleVars, runVars>>

HasFormula == "from_string" \in called /\ parsed.ok

\* res.unwrap().elements()
CallElements ==
    /\ HasFormula
    /\ "elements" \notin called
    /\ elems' \in elements(parsed.value)
    /\ called' = called \cup {"elements"}
    /\ UNCHANGED <<source, parsed, cnts, chem, materialVars, sampleVars, runVars>>

\* res.unwrap().counts()
CallCounts ==
    /\ HasFormula
    /\ "counts" \notin called
    /\ cnts' = counts(parsed.value)
    /\ called' = called \cup {"counts"}
    /\ UNCHANGED <<source, parsed, elems, chem, materialVars, sampleVars, runVars>>

\* res.unwrap().is_chem_valid()
CallIsChemValid ==
    /\ HasFormula
    /\ "is_chem_valid" \notin called
    /\ chem' = is_chem_valid(parsed.value)
    /\ called' = called \cup {"is_chem_valid"}
    /\ UNCHANGED <<source, parsed, elems, cnts, materialVars, sampleVars, runVars>>

Next == FromString \/ CallElements \/ CallCounts \/ CallIsChemValid

Spec == Init /\ [][Next]_vars

----------------------------------------------------------------------------
(* Material (gsapdef/material.py) *)

\* a ValueError of Material.validate, known by its message
MaterialError(message) == [exc |-> "ValueError", message |-> message]

EmptyCode == MaterialError("Material code cannot be empty.")

NegativeDensity == MaterialError("Material density cannot be negative.")

Unclassifiable == MaterialError("Material composition could not be classified")

SingleFraction == MaterialError("Weighted fraction subscript for a composition with only one element must have a value of 1.0.")

\* f"Element subscripts must sum to 1.0 ..., got {sum(counts)}."
SumMismatch(got) ==
    [exc |-> "ValueError", message |-> "Element subscripts must sum to 1.0", got |-> got]

\* digits of the tolerance 1e-6
ToleranceDigits == 6

Max(a, b) == IF a >= b THEN a ELSE b

Abs(a) == IF a >= 0 THEN a ELSE -a

\* the largest exponent among the decimals of a list
RECURSIVE MaxExp(_)
MaxExp(values) ==
    IF values = <<>> THEN 0 ELSE Max(Head(values).e, MaxExp(Tail(values)))

\* the numerators of the values over the common denominator 10^E, added up
RECURSIVE SumOver(_, _)
SumOver(values, E) ==
    IF values = <<>> THEN 0
    ELSE Head(values).m * Pow10(E - Head(values).e) + SumOver(Tail(values), E)

\* sum(counts)
sum(values) == Normalize(SumOver(values, MaxExp(values)), MaxExp(values))

\* abs(x - 1.0) < 1e-6
NearOne(x) ==
    LET E == Max(x.e, ToleranceDigits)
    IN  Abs(x.m * Pow10(E - x.e) - Pow10(E)) < Pow10(E - ToleranceDigits)

\* list(map(lambda c: c.count, formula))
top_counts(formula) == [i \in DOMAIN formula |-> formula[i].count]

\* Material(code, density): the dataclass __init__ followed by __post_init__
Material(code, density) ==
    [code |-> code, density |-> density, composition |-> from_string(code)]

\* composition_type() whose weight-fraction test is 0.0 < x <= 1.0
composition_type_closed(self) ==
    IF ~self.composition.ok THEN "UNKNOWN"
    ELSE LET values == top_counts(self.composition.value)
         IN  IF \A i \in DOMAIN values : 0 < values[i].m /\ values[i].m <= Pow10(values[i].e)
             THEN "WEIGHT_FRACTION"
             ELSE IF /\ \A i \in DOMAIN values : IsIntegral(values[i])
                     /\ \A i \in DOMAIN values : IntPart(values[i]) >= 1
             THEN "STOICHIOMETRIC"
             ELSE "UNKNOWN"

\* composition_type() that is STOICHIOMETRIC as soon as one top-level count
\* is an integer >= 1
composition_type_any_integral(self) ==
    IF ~self.composition.ok THEN "UNKNOWN"
    ELSE LET values == top_counts(self.composition.value)
         IN  IF \A i \in DOMAIN values : IsProperFraction(values[i])
             THEN "WEIGHT_FRACTION"
             ELSE IF \E i \in DOMAIN values :
                         IsIntegral(values[i]) /\ IntPart(values[i]) >= 1
             THEN "STOICHIOMETRIC"
             ELSE "UNKNOWN"

composition_type(self) ==
    IF ~self.composition.ok THEN "UNKNOWN"
    ELSE LET values == top_counts(self.composition.value)
         IN  IF \A i \in DOMAIN values : IsProperFraction(values[i])
             THEN "WEIGHT_FRACTION"
             ELSE IF /\ \A i \in DOMAIN values : IsIntegral(values[i])
                     /\ \A i \in DOMAIN values : IntPart(values[i]) >= 1
             THEN "STOICHIOMETRIC"
             ELSE "UNKNOWN"

\* the errors of validate() without the rule for a formula of one component
composition_errors_sum_only(self) ==
    LET formula == self.composition.value
        kind    == composition_type(self)
    IN  IF kind = "UNKNOWN" THEN <<Unclassifiable>>
        ELSE IF kind = "STOICHIOMETRIC" THEN <<>>
        ELSE IF ~NearOne(sum(top_counts(formula)))
        THEN <<SumMismatch(sum(top_counts(formula)))>>
        ELSE <<>>

\* the errors validate() appends for a composition that parsed
composition_errors(self) ==
    LET formula == self.composition.value
        kind    == composition_type(self)
    IN  IF kind = "UNKNOWN" THEN <<Unclassifiable>>
        ELSE IF kind = "STOICHIOMETRIC" THEN <<>>
        ELSE IF Len(formula) = 1 /\ ~(formula[1].count = One) THEN <<SingleFraction>>
        ELSE IF ~NearOne(sum(top_counts(formula)))
        THEN <<SumMismatch(sum(top_counts(formula)))>>
        ELSE <<>>

\* validate() whose sum test is sum(counts) - 1.0 < 1e-6, without abs()
composition_errors_no_abs(self) ==
    LET formula == self.composition.value
        kind    == composition_type(self)
        total   == sum(top_counts(formula))
        E       == Max(total.e, ToleranceDigits)
    IN  IF kind = "UNKNOWN" THEN <<Unclassifiable>>
        ELSE IF kind = "STOICHIOMETRIC" THEN <<>>
        ELSE IF Len(formula) = 1 /\ ~(formula[1].count = One) THEN <<SingleFraction>>
        ELSE IF ~(total.m * Pow10(E - total.e) - Pow10(E) < Pow10(E - ToleranceDigits))
        THEN <<SumMismatch(total)>>
        ELSE <<>>

validate_no_abs(self) ==
    LET errors ==
            (IF self.code = <<>> THEN <<EmptyCode>> ELSE <<>>)
            \o (IF self.density < 0 THEN <<NegativeDensity>> ELSE <<>>)
            \o (IF ~self.composition.ok THEN <<self.composition.error>>
                ELSE composition_errors_no_abs(self))
    IN  IF errors # <<>> THEN Failure(errors) ELSE Success(<<>>)

\* validate() that classifies the composition whether or not it parsed
validate_classifies_failure(self) ==
    LET errors ==
            (IF self.code = <<>> THEN <<EmptyCode>> ELSE <<>>)
            \o (IF self.density < 0 THEN <<NegativeDensity>> ELSE <<>>)
            \o (IF ~self.composition.ok THEN <<self.composition.error, Unclassifiable>>
                ELSE composition_errors(self))
    IN  IF errors # <<>> THEN Failure(errors) ELSE Success(<<>>)

\* validate() that returns at the first defect
validate_first_only(self) ==
    IF self.code = <<>> THEN Failure(<<EmptyCode>>)
    ELSE IF self.density < 0 THEN Failure(<<NegativeDensity>>)
    ELSE IF ~self.composition.ok THEN Failure(<<self.composition.error>>)
    ELSE IF composition_errors(self) # <<>> THEN Failure(composition_errors(self))
    ELSE Success(<<>>)

validate(self) ==
    LET errors ==
            (IF self.code = <<>> THEN <<EmptyCode>> ELSE <<>>)
            \o (IF self.density < 0 THEN <<NegativeDensity>> ELSE <<>>)
            \o (IF ~self.composition.ok THEN <<self.composition.error>>
                ELSE composition_errors(self))
    IN  IF errors # <<>> THEN Failure(errors) ELSE Success(<<>>)

----------------------------------------------------------------------------
(* Material: a caller constructs a Material and calls its methods *)

\* the parts Material codes are put together from: elements with and without
\* a subscript, groups, and fragments that do not parse.  The subscripts are
\* multiples of 1e-7 and no sum of up to five of them lies within 5e-7 of
\* 1.0 - 1e-6 or 1.0 + 1e-6, so that the rounding of the double sum, which is
\* below 1e-15, cannot change the outcome of abs(sum - 1.0) < 1e-6
Parts ==
    { <<"A">>, <<"A", "2">>, <<"A", "1", ".", "5">>,
      <<"A", ".", "5">>, <<"A", ".", "2", "5">>, <<"A", ".", "6">>,
      <<"A", ".", "4", "9", "9", "9", "9", "9", "9">>,
      <<"A", ".", "4", "9", "9", "9", "9">>,
      <<"(", "A", "2", ")", ".", "5">>, <<"(", "A", ".", "5", ")", ".", "5">>,
      <<"(">>, <<"A", "0">> }

RECURSIVE Concat(_)
Concat(parts) == IF parts = <<>> THEN <<>> ELSE Head(parts) \o Concat(Tail(parts))

\* codes of groups without an element in them, and of groups repeated an
\* integral number of times around an element with a fractional subscript
NestedCodes ==
    { <<"(", ")">>, <<"(", "(", ")", ")", "2">>,
      <<"(", "A", ".", "5", ")", "2">>, <<"A", "(", "A", "1", ".", "5", ")">>,
      <<"(", "A", "2", ")", "2">> }

Codes ==
    {Concat(ps) : ps \in UNION {[1..k -> Parts] : k \in 0..MaxParts}} \cup NestedCodes

\* densities in g/cm^3
Densities == {-1, 0, 3}

InitMaterial ==
    /\ source = <<>>
    /\ parsed = NotCalled
    /\ called = {}
    /\ elems = <<>>
    /\ cnts = <<>>
    /\ chem = FALSE
    /\ \E code \in Codes, density \in Densities : material = Material(code, density)
    /\ ctype = "UNKNOWN"
    /\ verdict = NotCalled
    /\ section = NoSection
    /\ profile = <<>>
    /\ outcome = NotCalled
    /\ variant = NotCalled
    /\ flat = NotCalled
    /\ frames = <<>>
    /\ ret = NotCalled
    /\ args = NotCalled
    /\ report = NotCalled

\* material.composition_type()
CallCompositionType ==
    /\ "composition_type" \notin called
    /\ ctype' = composition_type(material)
    /\ called' = called \cup {"composition_type"}
    /\ UNCHANGED <<formulaVars, material, verdict, sampleVars, runVars>>

\* material.validate()
CallValidate ==
    /\ "validate" \notin called
    /\ verdict' = validate(material)
    /\ called' = called \cup {"validate"}
    /\ UNCHANGED <<formulaVars, material, ctype, sampleVars, runVars>>

NextMaterial == CallCompositionType \/ CallValidate

SpecMaterial == InitMaterial /\ [][NextMaterial]_vars

----------------------------------------------------------------------------
(* Material, a dataclass that is not frozen: a caller constructs a          *)
(* Material, assigns to its field code and calls its methods, in any order  *)
(* and any number of times                                                  *)

\* the codes a Material is constructed with and the codes assigned to it
AssignedCodes == Parts \cup NestedCodes \cup {<<>>}

InitAssign ==
    /\ source = <<>>
    /\ parsed = NotCalled
    /\ called = {}
    /\ elems = <<>>
    /\ cnts = <<>>
    /\ chem = FALSE
    /\ \E code \in AssignedCodes, density \in Densities :
           material = Material(code, density)
    /\ ctype = "UNKNOWN"
    /\ verdict = NotCalled
    /\ section = NoSection
    /\ profile = <<>>
    /\ outcome = NotCalled
    /\ variant = NotCalled
    /\ flat = NotCalled
    /\ frames = <<>>
    /\ ret = NotCalled
    /\ args = NotCalled
    /\ report = NotCalled

\* material.code = code
AssignCode ==
    /\ \E code \in AssignedCodes : material' = [material EXCEPT !.code = code]
    /\ called' = called \cup {"code ="}
    /\ UNCHANGED <<formulaVars, ctype, verdict, sampleVars, runVars>>

\* material.composition_type(), at any time
CompositionTypeAnyTime ==
    /\ ctype' = composition_type(material)
    /\ called' = called \cup {"composition_type"}
    /\ UNCHANGED <<formulaVars, material, verdict, sampleVars, runVars>>

\* material.validate(), at any time
ValidateAnyTime ==
    /\ verdict' = validate(material)
    /\ called' = called \cup {"validate"}
    /\ UNCHANGED <<formulaVars, material, ctype, sampleVars, runVars>>

NextAssign == AssignCode \/ CompositionTypeAnyTime \/ ValidateAnyTime

SpecAssign == InitAssign /\ [][NextAssign]_vars

----------------------------------------------------------------------------
(* Sections (layer.py): Medium, Substrate, Layer, MultiLayer.  The module  *)
(* imports Material from its own package; here it is the Material above.   *)
(* A thickness is a float in nm and is modelled by an integer.             *)

\* ExceptionGroup(message, excs); the message f"field layers[{i}]" is the
\* pair <<"field layers", i>> and "field material" is <<"field material">>
ExceptionGroup(message, excs) ==
    [exc |-> "ExceptionGroup", message |-> message, exceptions |-> excs]

ThicknessError(thickness) ==
    [exc |-> "ValueError", message |-> "Thickness must be positive", got |-> thickness]

RepeatError(repeat) ==
    [exc |-> "ValueError", message |-> "Repeat must be at least 1", got |-> repeat]

Medium(mat) == [kind |-> "Medium", material |-> mat]

Substrate(mat) == [kind |-> "Substrate", material |-> mat]

Layer(mat, thickness) ==
    [kind |-> "Layer", material |-> mat, thickness |-> thickness]

MultiLayer(layers, repeat) ==
    [kind |-> "MultiLayer", layers |-> layers, repeat |-> repeat]

\* if errors: return Failure(errors); return Success(warnings)
Decide(warnings, errors) ==
    IF errors # <<>> THEN Failure(errors) ELSE Success(warnings)

\* Medium.validate(), inherited unchanged by Substrate
Medium_validate(self) ==
    LET after(mat_check) ==
            IF mat_check.ok
            THEN Decide(mat_check.value, <<>>)
            ELSE Decide(<<>>, <<ExceptionGroup(<<"field material">>, mat_check.error)>>)
    IN  after(validate(self.material))

\* Layer.validate(): super(Layer, self).validate() is Medium.validate()
Layer_validate(self) ==
    LET thickness_errors ==
            IF ~(self.thickness > 0) THEN <<ThicknessError(self.thickness)>> ELSE <<>>
        after(med_check) ==
            IF med_check.ok
            THEN Decide(med_check.value, thickness_errors)
            ELSE Decide(<<>>, <<ExceptionGroup(<<"field material">>, med_check.error)>>
                              \o thickness_errors)
    IN  after(Medium_validate(self))

\* the loop of MultiLayer.validate() from the layer of 0-based index i on
RECURSIVE validate_layers(_, _, _, _)
validate_layers(layers, i, warnings, errors) ==
    LET step(layer_check) ==
            IF layer_check.ok
            THEN validate_layers(layers, i + 1, warnings \o layer_check.value, errors)
            ELSE validate_layers(layers, i + 1, warnings,
                     Append(errors, ExceptionGroup(<<"field layers", i>>, layer_check.error)))
    IN  IF i >= Len(layers) THEN [warnings |-> warnings, errors |-> errors]
        ELSE step(Layer_validate(At(layers, i)))

\* MultiLayer.validate() that checks repeat only when every layer is valid
MultiLayer_validate_repeat_last(self) ==
    LET after(loop) ==
            IF loop.errors # <<>> THEN Failure(loop.errors)
            ELSE IF ~(self.repeat >= 1) THEN Failure(<<RepeatError(self.repeat)>>)
            ELSE Success(loop.warnings)
    IN  after(validate_layers(self.layers, 0, <<>>, <<>>))

MultiLayer_validate(self) ==
    LET after(loop) ==
            Decide(loop.warnings,
                   loop.errors \o (IF ~(self.repeat >= 1)
                                   THEN <<RepeatError(self.repeat)>> ELSE <<>>))
    IN  after(validate_layers(self.layers, 0, <<>>, <<>>))

\* section.validate(): the method of the section's class
section_validate(sec) ==
    IF sec.kind = "Layer" THEN Layer_validate(sec)
    ELSE IF sec.kind = "MultiLayer" THEN MultiLayer_validate(sec)
    ELSE Medium_validate(sec)

\* isinstance(section, Substrate)
IsSubstrate(sec) == sec.kind = "Substrate"

\* isinstance(section, MultiLayer)
IsMultiLayer(sec) == sec.kind = "MultiLayer"

----------------------------------------------------------------------------
(* Profile (profile.py): a list of sections *)

TooShort ==
    MaterialError("Profile must contain at least one layer/multilayer and one substrate.")

NoSections == MaterialError("Profile must contain at least one section.")

MisplacedSubstrate(index) ==
    [exc |-> "ValueError",
     message |-> "Substrate must be the last section in the profile",
     index |-> index]

MissingSubstrate == MaterialError("Profile must contain a substrate section.")

\* the loop of Profile.validate() without the test  i != len(self) - 1
RECURSIVE validate_sections_any_position(_, _, _, _, _)
validate_sections_any_position(self, i, warnings, errors, has_substrate) ==
    LET misplaced ==
            IF FALSE
            THEN <<MisplacedSubstrate(i)>> ELSE <<>>
        found == has_substrate \/ IsSubstrate(At(self, i))
        step(sec_check) ==
            IF sec_check.ok
            THEN validate_sections_any_position(self, i + 1, warnings \o sec_check.value,
                     errors \o misplaced, found)
            ELSE validate_sections_any_position(self, i + 1, warnings,
                     Append(errors, ExceptionGroup(<<"field section", i>>, sec_check.error))
                         \o misplaced, found)
    IN  IF i >= Len(self)
        THEN [warnings |-> warnings, errors |-> errors, has_substrate |-> has_substrate]
        ELSE step(section_validate(At(self, i)))

\* Profile.validate() that accepts a substrate at every index
Profile_validate_any_position(self) ==
    LET after(loop) ==
            Decide(loop.warnings,
                   loop.errors \o (IF ~loop.has_substrate THEN <<MissingSubstrate>> ELSE <<>>))
    IN  after(validate_sections_any_position(self, 0, <<>>,
                  IF ~(Len(self) >= 2) THEN <<TooShort>> ELSE <<>>, FALSE))

\* the loop of Profile.validate() that sets has_substrate only for a substrate
\* at the last index
RECURSIVE validate_sections_last_only(_, _, _, _, _)
validate_sections_last_only(self, i, warnings, errors, has_substrate) ==
    LET misplaced ==
            IF IsSubstrate(At(self, i)) /\ i # Len(self) - 1
            THEN <<MisplacedSubstrate(i)>> ELSE <<>>
        found == has_substrate \/ (IsSubstrate(At(self, i)) /\ i = Len(self) - 1)
        step(sec_check) ==
            IF sec_check.ok
            THEN validate_sections_last_only(self, i + 1, warnings \o sec_check.value,
                     errors \o misplaced, found)
            ELSE validate_sections_last_only(self, i + 1, warnings,
                     Append(errors, ExceptionGroup(<<"field section", i>>, sec_check.error))
                         \o misplaced, found)
    IN  IF i >= Len(self)
        THEN [warnings |-> warnings, errors |-> errors, has_substrate |-> has_substrate]
        ELSE step(section_validate(At(self, i)))

\* Profile.validate() that counts only a substrate that is last as present
Profile_validate_last_only(self) ==
    LET after(loop) ==
            Decide(loop.warnings,
                   loop.errors \o (IF ~loop.has_substrate THEN <<MissingSubstrate>> ELSE <<>>))
    IN  after(validate_sections_last_only(self, 0, <<>>,
                  IF ~(Len(self) >= 2) THEN <<TooShort>> ELSE <<>>, FALSE))

\* the loop of Profile.validate() that is left at the first section whose
\* validate() fails
RECURSIVE validate_sections_until_failure(_, _, _, _, _)
validate_sections_until_failure(self, i, warnings, errors, has_substrate) ==
    LET misplaced ==
            IF IsSubstrate(At(self, i)) /\ i # Len(self) - 1
            THEN <<MisplacedSubstrate(i)>> ELSE <<>>
        found == has_substrate \/ IsSubstrate(At(self, i))
        step(sec_check) ==
            IF sec_check.ok
            THEN validate_sections_until_failure(self, i + 1, warnings \o sec_check.value,
                     errors \o misplaced, found)
            ELSE [warnings |-> warnings,
                  errors |-> Append(errors,
                                 ExceptionGroup(<<"field section", i>>, sec_check.error))
                             \o misplaced,
                  has_substrate |-> found]
    IN  IF i >= Len(self)
        THEN [warnings |-> warnings, errors |-> errors, has_substrate |-> has_substrate]
        ELSE step(section_validate(At(self, i)))

\* the loop of Profile.validate() from the section of 0-based index i on
RECURSIVE validate_sections(_, _, _, _, _)
validate_sections(self, i, warnings, errors, has_substrate) ==
    LET misplaced ==
            IF IsSubstrate(At(self, i)) /\ i # Len(self) - 1
            THEN <<MisplacedSubstrate(i)>> ELSE <<>>
        found == has_substrate \/ IsSubstrate(At(self, i))
        step(sec_check) ==
            IF sec_check.ok
            THEN validate_sections(self, i + 1, warnings \o sec_check.value,
                     errors \o misplaced, found)
            ELSE validate_sections(self, i + 1, warnings,
                     Append(errors, ExceptionGroup(<<"field section", i>>, sec_check.error))
                         \o misplaced, found)
    IN  IF i >= Len(self)
        THEN [warnings |-> warnings, errors |-> errors, has_substrate |-> has_substrate]
        ELSE step(section_validate(At(self, i)))

\* Profile.validate() of gsapdef/profile.py
Profile_validate(self) ==
    LET after(loop) ==
            Decide(loop.warnings,
                   loop.errors \o (IF ~loop.has_substrate THEN <<MissingSubstrate>> ELSE <<>>))
    IN  after(validate_sections(self, 0, <<>>,
                  IF ~(Len(self) >= 2) THEN <<TooShort>> ELSE <<>>, FALSE))

\* Profile.validate() of samplmodls/profile.py
samplmodls_Profile_validate(self) ==
    LET after(loop) ==
            Decide(loop.warnings,
                   loop.errors \o (IF ~loop.has_substrate THEN <<MissingSubstrate>> ELSE <<>>))
    IN  after(validate_sections(self, 0, <<>>,
                  IF Len(self) = 0 THEN <<NoSections>> ELSE <<>>, FALSE))

\* list * int
RECURSIVE list_times(_, _)
list_times(list, n) == IF n <= 0 THEN <<>> ELSE list \o list_times(list, n - 1)

\* Profile.flatten() that extends by section.layers, without the repeat
RECURSIVE flatten_once(_)
flatten_once(self) ==
    IF self = <<>> THEN <<>>
    ELSE (IF IsMultiLayer(Head(self)) THEN Head(self).layers ELSE <<Head(self)>>)
         \o flatten_once(Tail(self))

RECURSIVE flatten(_)
flatten(self) ==
    IF self = <<>> THEN <<>>
    ELSE (IF IsMultiLayer(Head(self))
          THEN list_times(Head(self).layers, Head(self).repeat)
          ELSE <<Head(self)>>)
         \o flatten(Tail(self))

----------------------------------------------------------------------------
(* Sections and profiles: a caller constructs a section or a Profile and   *)
(* calls its methods, any number of times                                  *)

\* most layers of a MultiLayer
MaxLayers == 2

\* most sections of a Profile
MaxSections == 3

\* the materials of the sections constructed on their own
SectionMaterials ==
    {Material(code, density) : code \in Parts \cup {<<>>}, density \in Densities}

\* thicknesses in nm
Thicknesses == {-5, 0, 10}

Repeats == {-5, 0, 1, 2}

\* the layers the MultiLayers are made of: valid ones of different materials
\* and thicknesses, and ones with a defect in the thickness, the material, both
LayerPool ==
    { Layer(Material(<<"A">>, 3), 10), Layer(Material(<<"A", "b">>, 3), 5),
      Layer(Material(<<"A">>, 3), -5), Layer(Material(<<"A", "0">>, 3), 5),
      Layer(Material(<<>>, -1), 0) }

MultiLayers ==
    {MultiLayer(layers, repeat) :
        layers \in UNION {[1..k -> LayerPool] : k \in 0..MaxLayers}, repeat \in Repeats}

Sections ==
    {Medium(m) : m \in SectionMaterials}
    \cup {Substrate(m) : m \in SectionMaterials}
    \cup {Layer(m, t) : m \in SectionMaterials, t \in Thicknesses}
    \cup MultiLayers

\* the sections the Profiles are made of
SectionPool ==
    { Layer(Material(<<"A">>, 3), 10), Layer(Material(<<"A", "b">>, 3), 5),
      Layer(Material(<<"A">>, 3), -5),
      Substrate(Material(<<"A">>, 3)), Substrate(Material(<<"A", "0">>, 3)),
      MultiLayer(<<Layer(Material(<<"A">>, 3), 10), Layer(Material(<<"A", "b">>, 3), 5)>>, 2),
      MultiLayer(<<Layer(Material(<<"A", "b">>, 3), 5), Layer(Material(<<"A">>, 3), 10),
                   Layer(Material(<<"A">>, 3), 5)>>, 1),
      MultiLayer(<<Layer(Material(<<"A">>, 3), 10), Layer(Material(<<"A">>, 3), -5)>>, 0),
      MultiLayer(<<Layer(Material(<<"A", "b">>, 3), 5)>>, -5),
      MultiLayer(<<>>, 1) }

Profiles == UNION {[1..k -> SectionPool] : k \in 0..MaxSections}

InitSample ==
    /\ source = <<>>
    /\ parsed = NotCalled
    /\ called = {}
    /\ elems = <<>>
    /\ cnts = <<>>
    /\ chem = FALSE
    /\ material = NotCalled
    /\ ctype = "UNKNOWN"
    /\ verdict = NotCalled
    /\ \/ section \in Sections /\ profile = <<>>
       \/ section = NoSection /\ profile \in Profiles
    /\ outcome = NotCalled
    /\ variant = NotCalled
    /\ flat = NotCalled
    /\ frames = <<>>
    /\ ret = NotCalled
    /\ args = NotCalled
    /\ report = NotCalled

\* medium.validate(), substrate.validate()
MediumValidate ==
    /\ section.kind \in {"Medium", "Substrate"}
    /\ outcome' = Medium_validate(section)
    /\ called' = called \cup {"Medium.validate"}
    /\ UNCHANGED <<formulaVars, materialVars, section, profile, variant, flat, runVars>>

\* layer.validate()
LayerValidate ==
    /\ section.kind = "Layer"
    /\ outcome' = Layer_validate(section)
    /\ called' = called \cup {"Layer.validate"}
    /\ UNCHANGED <<formulaVars, materialVars, section, profile, variant, flat, runVars>>

\* multilayer.validate()
MultiLayerValidate ==
    /\ section.kind = "MultiLayer"
    /\ outcome' = MultiLayer_validate(section)
    /\ called' = called \cup {"MultiLayer.validate"}
    /\ UNCHANGED <<formulaVars, materialVars, section, profile, variant, flat, runVars>>

\* profile.validate() for a gsapdef.profile.Profile
ProfileValidate ==
    /\ section = NoSection
    /\ outcome' = Profile_validate(profile)
    /\ called' = called \cup {"Profile.validate"}
    /\ UNCHANGED <<formulaVars, materialVars, section, profile, variant, flat, runVars>>

\* profile.validate() for a samplmodls.profile.Profile of the same sections
SamplmodlsProfileValidate ==
    /\ section = NoSection
    /\ variant' = samplmodls_Profile_validate(profile)
    /\ called' = called \cup {"samplmodls.Profile.validate"}
    /\ UNCHANGED <<formulaVars, materialVars, section, profile, outcome, flat, runVars>>

\* profile.flatten() that replaces the profile's sections by the flattened list
ProfileFlatten_in_place ==
    /\ section = NoSection
    /\ flat' = flatten(profile)
    /\ profile' = flatten(profile)
    /\ called' = called \cup {"Profile.flatten"}
    /\ UNCHANGED <<formulaVars, materialVars, section, outcome, variant, runVars>>

\* profile.flatten()
ProfileFlatten ==
    /\ section = NoSection
    /\ flat' = flatten(profile)
    /\ called' = called \cup {"Profile.flatten"}
    /\ UNCHANGED <<formulaVars, materialVars, section, profile, outcome, variant, runVars>>

NextSample ==
    \/ MediumValidate
    \/ LayerValidate
    \/ MultiLayerValidate
    \/ ProfileValidate
    \/ SamplmodlsProfileValidate
    \/ ProfileFlatten

SpecSample == InitSample /\ [][NextSample]_vars

----------------------------------------------------------------------------
(* Formula.from_string, one step at a time: the statements of from_string,  *)
(* parse_formula, parse_section, extract_group, extract_component and       *)
(* extract_number run on a call stack.  A frame holds the locals of one     *)
(* call and the place (pc) the call is at; a call pushes a frame, a return  *)
(* pops it and leaves the returned Result in ret.result.                    *)

\* longest source string a stepwise run is started on
MaxRunLen == 4

\* the frame of a call that has not executed a statement yet
Frame(fn, start) ==
    [fn |-> fn,
     pc |-> IF fn \in {"parse_section", "extract_number"} THEN "loop" ELSE "enter",
     start |-> start, index |-> start,
     components |-> <<>>, symbol |-> <<>>, decimal_found |-> FALSE]

\* the frame of the call that is executing
Top == frames[Len(frames)]

Callers == SubSeq(frames, 1, Len(frames) - 1)

\* the call that is executing is fn, at pc
Running(fn, pc) == frames # <<>> /\ Top.fn = fn /\ Top.pc = pc

\* the executing call goes on with its locals as in frame
Goto(frame) == frames' = Append(Callers, frame) /\ ret' = ret

\* the executing call, its locals as in frame, calls fn(source, start)
Call(frame, fn, start) ==
    frames' = Append(Append(Callers, frame), Frame(fn, start)) /\ ret' = ret

\* the executing call returns value to its caller
Return(value) == frames' = Callers /\ ret' = [by |-> Top.fn, result |-> value]

\* from_string has returned
Done == frames = <<>>

outsideRun ==
    <<source, parsed, elems, cnts, chem, materialVars, sampleVars, args, report, called>>

InitRun ==
    /\ source \in Strings(MaxRunLen)
    /\ frames = <<Frame("from_string", 0)>>
    /\ ret = NotCalled
    /\ parsed = NotCalled
    /\ called = {}
    /\ elems = NotCalled
    /\ cnts = NotCalled
    /\ chem = NotCalled
    /\ material = NotCalled
    /\ ctype = NotCalled
    /\ verdict = NotCalled
    /\ section = NoSection
    /\ profile = <<>>
    /\ outcome = NotCalled
    /\ variant = NotCalled
    /\ flat = NotCalled
    /\ args = NotCalled
    /\ report = NotCalled

\* res = parse_formula(source)
FromStringEnter ==
    /\ Running("from_string", "enter")
    /\ Call([Top EXCEPT !.pc = "got"], "parse_formula", 0)
    /\ UNCHANGED outsideRun

\* if ok(res): return Success(cls(components)) else: return Failure(...)
FromStringGot ==
    /\ Running("from_string", "got")
    /\ Return(IF ret.result.ok THEN Success(ret.result.value) ELSE Failure(ret.result.error))
    /\ UNCHANGED outsideRun

\* index = 0; res := parse_section(source, index)
ParseFormulaEnter ==
    /\ Running("parse_formula", "enter")
    /\ Call([Top EXCEPT !.pc = "got"], "parse_section", 0)
    /\ UNCHANGED outsideRun

\* the rest of parse_formula, once parse_section has returned
ParseFormulaGot ==
    /\ Running("parse_formula", "got")
    /\ Return(IF ~ret.result.ok THEN Failure(ret.result.error)
              ELSE IF ret.result.value[2] # Len(source)
              THEN Failure(ValueError("unexpected characters at end", ret.result.value[2]))
              ELSE Success(ret.result.value[1]))
    /\ UNCHANGED outsideRun

\* parse_section whose loop sends uppercase letters only to extract_component
SectionLoop_upper_only ==
    /\ Running("parse_section", "loop")
    /\ IF ~(Top.index < Len(source) /\ At(source, Top.index) # ")")
       THEN Return(Success(<<Top.components, Top.index>>))
       ELSE IF isupper(At(source, Top.index))
       THEN Call([Top EXCEPT !.pc = "got"], "extract_component", Top.index)
       ELSE IF At(source, Top.index) = "("
       THEN Call([Top EXCEPT !.pc = "got"], "extract_group", Top.index)
       ELSE Return(Failure(ValueError("unexpected character", Top.index)))
    /\ UNCHANGED outsideRun

\* the loop test of parse_section and the choice of the extractor
SectionLoop ==
    /\ Running("parse_section", "loop")
    /\ IF ~(Top.index < Len(source) /\ At(source, Top.index) # ")")
       THEN Return(Success(<<Top.components, Top.index>>))
       ELSE IF isalpha(At(source, Top.index))
       THEN Call([Top EXCEPT !.pc = "got"], "extract_component", Top.index)
       ELSE IF At(source, Top.index) = "("
       THEN Call([Top EXCEPT !.pc = "got"], "extract_group", Top.index)
       ELSE Return(Failure(ValueError("unexpected character", Top.index)))
    /\ UNCHANGED outsideRun

\* parse_section that starts over from its start index after an extraction
\* and drops what was extracted
SectionGot_rewinds ==
    /\ Running("parse_section", "got")
    /\ IF ~ret.result.ok THEN Return(Failure(ret.result.error))
       ELSE IF ret.result.value[2] = Top.index
       THEN Return(Failure(ValueError("no progress", Top.index)))
       ELSE Goto([Top EXCEPT !.pc = "loop", !.index = Top.start])
    /\ UNCHANGED outsideRun

\* the rest of the loop body of parse_section, once the extractor has returned
SectionGot ==
    /\ Running("parse_section", "got")
    /\ IF ~ret.result.ok THEN Return(Failure(ret.result.error))
       ELSE IF ret.result.value[2] = Top.index
       THEN Return(Failure(ValueError("no progress", Top.index)))
       ELSE Goto([Top EXCEPT !.pc = "loop", !.index = ret.result.value[2],
                             !.components = Append(Top.components, ret.result.value[1])])
    /\ UNCHANGED outsideRun

\* extract_group up to its call of parse_section
GroupEnter ==
    /\ Running("extract_group", "enter")
    /\ IF At(source, Top.start) # "("
       THEN Return(Failure(ValueError("group must start with (", Top.start)))
       ELSE Call([Top EXCEPT !.pc = "section", !.index = Top.start + 1],
                 "parse_section", Top.start + 1)
    /\ UNCHANGED outsideRun

\* extract_group from the return of parse_section to its call of extract_number
GroupSection ==
    /\ Running("extract_group", "section")
    /\ IF ~ret.result.ok THEN Return(Failure(ret.result.error))
       ELSE IF ret.result.value[2] >= Len(source) \/ At(source, ret.result.value[2]) # ")"
       THEN Return(Failure(ValueError("unmatched (", ret.result.value[2])))
       ELSE Call([Top EXCEPT !.pc = "number", !.index = ret.result.value[2] + 1,
                             !.components = ret.result.value[1]],
                 "extract_number", ret.result.value[2] + 1)
    /\ UNCHANGED outsideRun

\* the rest of extract_group, once extract_number has returned
GroupNumber ==
    /\ Running("extract_group", "number")
    /\ LET count == IF ret.result.ok THEN ret.result.value[1] ELSE One
           index == IF ret.result.ok THEN ret.result.value[2] ELSE Top.index
       IN  IF ~ret.result.ok /\ ret.result.error.exc # "IndexError" THEN Return(Failure(ret.result.error))
           ELSE IF NonPositive(count)
           THEN Return(Failure(ValueError("subscript must be > 0", index)))
           ELSE Return(Success(<<Group(Top.components, count), index>>))
    /\ UNCHANGED outsideRun

\* extract_component that returns an Element without a symbol where the
\* source has no uppercase letter
ComponentEnter_no_symbol ==
    /\ Running("extract_component", "enter")
    /\ IF ~isupper(At(source, Top.start))
       THEN Return(Success(<<Element(<<>>, One), Top.start>>))
       ELSE Goto([Top EXCEPT !.pc = "loop", !.index = Top.start + 1])
    /\ UNCHANGED outsideRun

\* extract_component up to its while loop
ComponentEnter ==
    /\ Running("extract_component", "enter")
    /\ IF ~isupper(At(source, Top.start))
       THEN Return(Failure(ValueError("element must start uppercase", Top.start)))
       ELSE Goto([Top EXCEPT !.pc = "loop", !.index = Top.start + 1])
    /\ UNCHANGED outsideRun

\* one pass of the while loop of extract_component; on break, the symbol
\* and the call of extract_number
ComponentLoop ==
    /\ Running("extract_component", "loop")
    /\ IF Top.index >= Len(source) \/ ~islower(At(source, Top.index))
       THEN Call([Top EXCEPT !.pc = "number",
                             !.symbol = Slice(source, Top.start, Top.index)],
                 "extract_number", Top.index)
       ELSE Goto([Top EXCEPT !.index = Top.index + 1])
    /\ UNCHANGED outsideRun

\* the rest of extract_component, once extract_number has returned
ComponentNumber ==
    /\ Running("extract_component", "number")
    /\ LET count == IF ret.result.ok THEN ret.result.value[1] ELSE One
           index == IF ret.result.ok THEN ret.result.value[2] ELSE Top.index
       IN  IF ~ret.result.ok /\ ret.result.error.exc # "IndexError" THEN Return(Failure(ret.result.error))
           ELSE IF NonPositive(count)
           THEN Return(Failure(ValueError("subscript must be > 0", index)))
           ELSE Return(Success(<<Element(Top.symbol, count), index>>))
    /\ UNCHANGED outsideRun

\* one pass of the while loop of extract_number
NumberLoop ==
    /\ Running("extract_number", "loop")
    /\ IF \/ Top.index >= Len(source)
          \/ ~isdigit(At(source, Top.index)) /\ At(source, Top.index) # "."
       THEN Goto([Top EXCEPT !.pc = "after"])
       ELSE IF At(source, Top.index) = "." /\ Top.decimal_found
       THEN Return(Failure(ValueError("multiple decimals", Top.index)))
       ELSE Goto([Top EXCEPT !.index = Top.index + 1,
                             !.decimal_found = Top.decimal_found
                                               \/ At(source, Top.index) = "."])
    /\ UNCHANGED outsideRun

\* extract_number after its while loop
NumberAfter ==
    /\ Running("extract_number", "after")
    /\ LET number == float(Slice(source, Top.start, Top.index))
       IN  IF Top.index = Top.start
           THEN Return(Failure(IndexError("expected a number", Top.start)))
           ELSE IF number.ok THEN Return(Success(<<number.value, Top.index>>))
           ELSE Return(Failure(number.error))
    /\ UNCHANGED outsideRun

NextRun ==
    \/ FromStringEnter
    \/ FromStringGot
    \/ ParseFormulaEnter
    \/ ParseFormulaGot
    \/ SectionLoop
    \/ SectionGot
    \/ GroupEnter
    \/ GroupSection
    \/ GroupNumber
    \/ ComponentEnter
    \/ ComponentLoop
    \/ ComponentNumber
    \/ NumberLoop
    \/ NumberAfter

\* the interpreter executes the next statement of a call that has not
\* returned
SpecRun == InitRun /\ [][NextRun]_vars /\ WF_vars(NextRun)

\* a run that has returned has returned what from_string returns
RunReturnsFromString == Done => ret.result = from_string(source)

----------------------------------------------------------------------------
(* LayerArgs (layermodels/models/layer.py).  An Optional argument is a      *)
(* sequence: <<>> for None, <<v>> for the value v.  sigma and tr are floats *)
(* in Angstrom and are modelled by integers; a composition fraction is a    *)
(* decimal [m, e] with an exact binary representation, so that the double   *)
(* sum of up to three of them is exact.                                     *)

\* returns.maybe
Nothing == [some |-> FALSE]

Some(v) == [some |-> TRUE, value |-> v]

\* the roughness above which validate() warns
SigmaLimit == 5

\* Err.TypeErr("LayerArgs")(message)
ArgsErr(message) == [exc |-> "LayerArgs", message |-> message]

HighRoughness ==
    "Warning: High roughness (sigma > 5 A) may lead to inaccurate results. Use tr=2*(sigma) instead."

\* Some(tuple[i]) if len(tuple) > i else Nothing, for the 0-based i; Nothing,
\* the default of the field, when the tuple is None
field_of(optional_tuple, i) ==
    IF optional_tuple = <<>> THEN Nothing
    ELSE IF Len(optional_tuple[1]) > i THEN Some(At(optional_tuple[1], i))
    ELSE Nothing

\* Some(value) if value is not None else Nothing
maybe_of(optional) == IF optional # <<>> THEN Some(optional[1]) ELSE Nothing

\* LayerArgs.__init__
LayerArgs(codes, composition, sigma, tr, chi0, deb_wall) ==
    [code1 |-> field_of(codes, 0), code2 |-> field_of(codes, 1),
     code3 |-> field_of(codes, 2), code4 |-> field_of(codes, 3),
     x1 |-> field_of(composition, 0), x2 |-> field_of(composition, 1),
     x3 |-> field_of(composition, 2),
     sigma |-> maybe_of(sigma), tr |-> maybe_of(tr),
     chi0 |-> maybe_of(chi0), deb_wall |-> maybe_of(deb_wall)]

IsSome(x) == x # Nothing

\* [x.unwrap() for x in fields if x != Nothing]
unwrap_defined(fields) ==
    LET defined == SelectSeq(fields, IsSome)
    IN  [i \in DOMAIN defined |-> defined[i].value]

\* x > 1.0
GreaterThanOne(x) == x.m > Pow10(x.e)

LayerArgs_validate(self) ==
    LET codes == <<self.code1, self.code2, self.code3, self.code4>>
        fractions == <<self.x1, self.x2, self.x3>>
        num_codes == Len(SelectSeq(codes, IsSome))
        num_comps == Len(SelectSeq(fractions, IsSome))
    IN  IF self.sigma # Nothing /\ self.tr # Nothing
        THEN Failure(ArgsErr("Both tr and sigma are defined (mutually exclusive)"))
        ELSE IF self.sigma # Nothing /\ self.sigma.value > SigmaLimit
        THEN Success(Some(HighRoughness))
        ELSE IF num_codes # num_comps \/ num_codes > 1 + num_comps
        THEN Failure(ArgsErr("The number of defined codes and compositional fractions do not match."))
        ELSE IF GreaterThanOne(sum(unwrap_defined(fractions)))
        THEN Failure(ArgsErr("Sum of composition fractions exceeds 1.0"))
        ELSE IF /\ \A i \in DOMAIN codes : codes[i] # Nothing
                /\ \A i \in DOMAIN fractions : fractions[i] # Nothing
                /\ sum(unwrap_defined(fractions)) = One
        THEN Failure(ArgsErr("Sum of composition fractions is exactly 1.0 but code4 is defined"))
        ELSE Success(Nothing)

----------------------------------------------------------------------------
(* LayerArgs: a caller constructs a LayerArgs and calls validate() *)

\* most entries of the tuples codes and composition given to LayerArgs
MaxArgs == 4

\* None, or a value of the set
Optional(values) == {<<>>} \cup {<<v>> : v \in values}

Tuples(values, n) == UNION {[1..k -> values] : k \in 0..n}

\* 0.25 and 0.5
Fractions == {[m |-> 25, e |-> 2], [m |-> 5, e |-> 1]}

\* roughnesses in Angstrom, below, at and above the limit
Sigmas == {3, 5, 7}

InitArgs ==
    /\ source = <<>>
    /\ parsed = NotCalled
    /\ called = {}
    /\ elems = <<>>
    /\ cnts = <<>>
    /\ chem = FALSE
    /\ material = NotCalled
    /\ ctype = "UNKNOWN"
    /\ verdict = NotCalled
    /\ section = NoSection
    /\ profile = <<>>
    /\ outcome = NotCalled
    /\ variant = NotCalled
    /\ flat = NotCalled
    /\ frames = <<>>
    /\ ret = NotCalled
    /\ \E codes \in Optional(Tuples({<<"A">>}, MaxArgs)),
          composition \in Optional(Tuples(Fractions, MaxArgs)),
          sigma \in Optional(Sigmas), tr \in Optional({2}) :
           args = LayerArgs(codes, composition, sigma, tr, <<>>, <<>>)
    /\ report = NotCalled

\* args.validate()
LayerArgsValidate ==
    /\ report' = LayerArgs_validate(args)
    /\ called' = called \cup {"LayerArgs.validate"}
    /\ UNCHANGED <<formulaVars, materialVars, sampleVars, frames, ret, args>>

NextArgs == LayerArgsValidate

SpecArgs == InitArgs /\ [][NextArgs]_vars

----------------------------------------------------------------------------
(* Vocabulary of the properties *)

Count(t, c) == Cardinality({i \in DOMAIN t : t[i] = c})

Repeat(c, n) == [i \in 1..n |-> c]

AllDigits(t) == \A i \in DOMAIN t : isdigit(t[i])

\* the written grammar's Number := Digit+ ('.' Digit+)? | Digit* '.' Digit+
SpecNumber(t) ==
    \/ t # <<>> /\ AllDigits(t)
    \/ \E k \in DOMAIN t :
          /\ t[k] = "."
          /\ k < Len(t)
          /\ AllDigits(SubSeq(t, 1, k - 1))
          /\ AllDigits(SubSeq(t, k + 1, Len(t)))

\* digits with at most one '.', at least one digit:
\* Digit+ ('.' Digit*)? | '.' Digit+
RunNumber(t) ==
    /\ \A i \in DOMAIN t : isdigit(t[i]) \/ t[i] = "."
    /\ Count(t, ".") <= 1
    /\ \E i \in DOMAIN t : isdigit(t[i])

\* a Number of the grammar whose value is > 0; trailingDot selects RunNumber
GNumber(t, trailingDot) ==
    /\ IF trailingDot THEN RunNumber(t) ELSE SpecNumber(t)
    /\ \E i \in DOMAIN t : isdigit(t[i]) /\ t[i] # "0"

\* Element := Upper Lower* Number?
GElement(t, trailingDot) ==
    /\ t # <<>>
    /\ isupper(t[1])
    /\ \E k \in 1..Len(t) :
          /\ \A i \in 2..k : islower(t[i])
          /\ k = Len(t) \/ GNumber(SubSeq(t, k + 1, Len(t)), trailingDot)

RECURSIVE GSection(_, _)

\* Group := '(' Section ')' Number?
GGroup(t, trailingDot) ==
    /\ Len(t) >= 2
    /\ t[1] = "("
    /\ \E k \in 2..Len(t) :
          /\ t[k] = ")"
          /\ GSection(SubSeq(t, 2, k - 1), trailingDot)
          /\ k = Len(t) \/ GNumber(SubSeq(t, k + 1, Len(t)), trailingDot)

\* Section := (Element | Group)*
GSection(t, trailingDot) ==
    \/ t = <<>>
    \/ \E k \in 1..Len(t) :
          /\ GElement(SubSeq(t, 1, k), trailingDot) \/ GGroup(SubSeq(t, 1, k), trailingDot)
          /\ GSection(SubSeq(t, k + 1, Len(t)), trailingDot)

\* the string is over [A-Za-z0-9().]
InGrammarAlphabet(t) ==
    \A i \in DOMAIN t : isalpha(t[i]) \/ isdigit(t[i]) \/ t[i] \in {"(", ")", "."}

Parsed == "from_string" \in called

----------------------------------------------------------------------------
(* C1 *)

\* C1 as written: over [A-Za-z0-9().], from_string succeeds exactly on the
\* strings of the grammar whose Number is Digit+ ('.' Digit+)? | Digit* '.' Digit+
\* with every written subscript > 0 (so "A5." would be rejected).
C1_AsWritten ==
    Parsed /\ InGrammarAlphabet(source) => (parsed.ok <=> GSection(source, FALSE))

\* C1 amended: over [A-Za-z0-9().], from_string succeeds exactly on the strings
\* of the grammar whose Number is Digit+ ('.' Digit*)? | '.' Digit+ with every
\* written subscript > 0: a trailing '.' after digits is accepted, a lone '.'
\* is not a Number.
C1_Grammar ==
    Parsed /\ InGrammarAlphabet(source) => (parsed.ok <=> GSection(source, TRUE))

\* a parsed string with a group and a number ending in '.'
C1_Witness ==
    /\ Parsed
    /\ parsed.ok
    /\ Count(source, "(") > 0
    /\ ~GSection(source, FALSE)

----------------------------------------------------------------------------
(* C2 *)

\* every prefix has at least as many '(' as ')' and the totals agree
Balanced(t) ==
    /\ \A k \in 0..Len(t) : Count(SubSeq(t, 1, k), ")") <= Count(SubSeq(t, 1, k), "(")
    /\ Count(t, "(") = Count(t, ")")

\* some '(' has no matching ')'
HasUnmatchedOpen(t) ==
    \E i \in DOMAIN t :
        /\ t[i] = "("
        /\ ~\E j \in (i + 1)..Len(t) : t[j] = ")" /\ Balanced(SubSeq(t, i + 1, j - 1))

\* the ')' at position j (1-based) has no matching '('
UnmatchedCloseAt(t, j) ==
    /\ t[j] = ")"
    /\ ~\E i \in 1..(j - 1) : t[i] = "(" /\ Balanced(SubSeq(t, i + 1, j - 1))

HasUnmatchedClose(t) == \E j \in DOMAIN t : UnmatchedCloseAt(t, j)

Failed(kind) == Parsed /\ ~parsed.ok /\ parsed.error.kind = kind

\* appending one or more ')' makes the string well-formed (as many as there
\* are more '(' than ')' in it: a well-formed string is balanced)
WellFormedButOpen(t) ==
    /\ Count(t, "(") > Count(t, ")")
    /\ GSection(t \o Repeat(")", Count(t, "(") - Count(t, ")")), TRUE)

\* a well-formed top-level section followed by a ')': the 0-based indices of
\* such a ')'
StrayCloseAfterSection(t) ==
    {j - 1 : j \in {i \in DOMAIN t : t[i] = ")" /\ GSection(SubSeq(t, 1, i - 1), TRUE)}}

\* the index at which the top-level parse_section of the source stopped
Consumed == parse_section(source, 0).value[2]

\* C2 as written: an unmatched '(' always fails as "unmatched parenthesis", an
\* unmatched ')' always fails as "trailing characters", and a successful parse
\* consumed the whole source.
C2_AsWritten ==
    Parsed =>
        /\ HasUnmatchedOpen(source) => Failed("unmatched (")
        /\ HasUnmatchedClose(source) => Failed("unexpected characters at end")
        /\ parsed.ok => Consumed = Len(source)

\* C2 amended: every string with unbalanced parentheses fails; the failure is
\* "unmatched parenthesis", at index len(source), exactly when appending one or
\* more ')' would make the string well-formed, and "trailing characters", at
\* the index of that ')', exactly when a well-formed section is followed by a
\* ')'; other unbalanced strings fail with the syntax error met first; a
\* successful parse consumed the whole source.
C2_Unbalanced ==
    Parsed =>
        /\ ~Balanced(source) => ~parsed.ok
        /\ Failed("unmatched (") <=> WellFormedButOpen(source)
        /\ Failed("unmatched (") =>
              HasUnmatchedOpen(source) /\ parsed.error.index = Len(source)
        /\ Failed("unexpected characters at end") <=> StrayCloseAfterSection(source) # {}
        /\ Failed("unexpected characters at end") =>
              /\ parsed.error.index \in StrayCloseAfterSection(source)
              /\ UnmatchedCloseAt(source, parsed.error.index + 1)
        /\ parsed.ok => Consumed = Len(source)

\* an unmatched '(' at nesting depth two, reported as such
C2_Witness ==
    /\ Failed("unmatched (")
    /\ Count(source, "(") >= 2
    /\ Count(source, ")") = 0
    /\ \E i \in DOMAIN source : isupper(source[i])

----------------------------------------------------------------------------
(* C3 *)

\* the counts of the Elements of a component list at every depth, in source
\* order (an Element's symbol holds exactly one uppercase letter, so the k-th
\* entry belongs to the k-th uppercase letter of the source)
RECURSIVE ElementCounts(_)
ElementCounts(comps) ==
    IF comps = <<>> THEN <<>>
    ELSE (IF Head(comps).kind = "Element" THEN <<Head(comps).count>>
          ELSE ElementCounts(Head(comps).components)) \o ElementCounts(Tail(comps))

\* the counts of the Groups at every depth, in the order in which the groups
\* close (the k-th entry belongs to the k-th ')' of the source)
RECURSIVE GroupCounts(_)
GroupCounts(comps) ==
    IF comps = <<>> THEN <<>>
    ELSE (IF Head(comps).kind = "Group"
          THEN GroupCounts(Head(comps).components) \o <<Head(comps).count>>
          ELSE <<>>) \o GroupCounts(Tail(comps))

\* the 1-based positions of the characters of t that satisfy Test, ascending
PositionsOf(t, Test(_)) ==
    LET ps == {i \in DOMAIN t : Test(t[i])}
    IN  [k \in 1..Cardinality(ps) |->
            CHOOSE i \in ps : Cardinality({j \in ps : j < i}) = k - 1]

IsClose(c) == c = ")"

IsNumberChar(c) == isdigit(c) \/ c = "."

\* the first position after p that holds no lowercase letter
RECURSIVE PastLower(_, _)
PastLower(t, p) ==
    IF p + 1 <= Len(t) /\ islower(t[p + 1]) THEN PastLower(t, p + 1) ELSE p + 1

\* no subscript is written at position q
NoSubscriptAt(t, q) == q > Len(t) \/ ~IsNumberChar(t[q])

\* the longest run of digits and '.' that starts at position q
RECURSIVE NumberRun(_, _)
NumberRun(t, q) ==
    IF q <= Len(t) /\ IsNumberChar(t[q]) THEN <<t[q]>> \o NumberRun(t, q + 1) ELSE <<>>

\* a subscript whose value is 0 is written after a letter or a ')'
WritesZeroSubscript(t) ==
    \E q \in 2..Len(t) :
        /\ isalpha(t[q - 1]) \/ t[q - 1] = ")"
        /\ RunNumber(NumberRun(t, q))
        /\ \A i \in DOMAIN NumberRun(t, q) : NumberRun(t, q)[i] \in {"0", "."}

\* C3: in a parsed Formula every Element and Group count is > 0, a component
\* written without a subscript has count exactly 1.0, and a source that writes
\* a subscript of value 0 does not parse.
C3_Counts ==
    Parsed =>
        /\ WritesZeroSubscript(source) => ~parsed.ok
        /\ parsed.ok =>
              LET ec == ElementCounts(parsed.value)
                  gc == GroupCounts(parsed.value)
                  up == PositionsOf(source, isupper)
                  cl == PositionsOf(source, IsClose)
              IN  /\ Len(ec) = Len(up)
                  /\ Len(gc) = Len(cl)
                  /\ \A k \in DOMAIN ec :
                        /\ ec[k].m > 0
                        /\ NoSubscriptAt(source, PastLower(source, up[k])) => ec[k] = One
                  /\ \A k \in DOMAIN gc :
                        /\ gc[k].m > 0
                        /\ NoSubscriptAt(source, cl[k] + 1) => gc[k] = One

\* a parsed group with a written subscript around an element without one
C3_Witness ==
    /\ Parsed
    /\ parsed.ok
    /\ \E i \in DOMAIN parsed.value :
          /\ parsed.value[i].kind = "Group"
          /\ parsed.value[i].count # One
          /\ parsed.value[i].components # <<>>
          /\ parsed.value[i].components[1].kind = "Element"
          /\ parsed.value[i].components[1].count = One

----------------------------------------------------------------------------
(* C4 *)

\* c is the counts structure of the component list comps
RECURSIVE Mirrors(_, _)
Mirrors(c, comps) ==
    /\ Len(c) = Len(comps)
    /\ \A i \in DOMAIN comps :
          IF comps[i].kind = "Element"
          THEN c[i] = comps[i].count
          ELSE /\ DOMAIN c[i] = {"inner", "count"}
               /\ c[i].count = comps[i].count
               /\ Mirrors(c[i].inner, comps[i].components)

\* C4: counts() has one entry per top-level component in source order; an
\* Element gives its count, a Group the pair (counts() of its children, its
\* count), at every depth.
C4_CountsMirror == "counts" \in called => Mirrors(cnts, parsed.value)

\* counts() of a formula with an element next to a non-empty group
C4_Witness ==
    /\ "counts" \in called
    /\ \E i, j \in DOMAIN cnts :
          /\ DOMAIN cnts[i] = {"m", "e"}
          /\ DOMAIN cnts[j] = {"inner", "count"}
          /\ cnts[j].inner # <<>>

----------------------------------------------------------------------------
(* C5 *)

\* the element symbols written in the source: each uppercase letter with the
\* lowercase letters that follow it
SourceSymbols(t) ==
    {SubSeq(t, p, PastLower(t, p) - 1) : p \in {i \in DOMAIN t : isupper(t[i])}}

IsSymbol(sym) ==
    /\ sym # <<>>
    /\ isupper(sym[1])
    /\ \A i \in 2..Len(sym) : islower(sym[i])

\* C5: elements() holds exactly the symbols of the Elements at every depth,
\* each once, and every symbol is an uppercase letter followed by lowercase
\* letters.
C5_Elements ==
    "elements" \in called =>
        /\ Range(elems) = SourceSymbols(source)
        /\ Len(elems) = Cardinality(Range(elems))
        /\ \A i \in DOMAIN elems : IsSymbol(elems[i])

\* elements() of a formula that repeats, inside a group, a symbol written
\* outside it
C5_Witness ==
    /\ "elements" \in called
    /\ Len(elems) = 1
    /\ \E i, j \in DOMAIN parsed.value :
          /\ parsed.value[i].kind = "Element"
          /\ parsed.value[j].kind = "Group"
          /\ parsed.value[j].components # <<>>

----------------------------------------------------------------------------
(* C6 *)

\* C6: is_chem_valid() is true exactly when every Element at every depth has
\* a positive integral count; the subscripts of Groups are not looked at.
C6_ChemValid ==
    "is_chem_valid" \in called =>
        (chem <=> \A k \in DOMAIN ElementCounts(parsed.value) :
                      /\ IsIntegral(ElementCounts(parsed.value)[k])
                      /\ ElementCounts(parsed.value)[k].m > 0)

\* a chemically valid formula whose group has a fractional subscript
C6_Witness ==
    /\ "is_chem_valid" \in called
    /\ chem
    /\ \E i \in DOMAIN parsed.value :
          /\ parsed.value[i].kind = "Group"
          /\ ~IsIntegral(parsed.value[i].count)
          /\ parsed.value[i].components # <<>>

\* a formula that parses but is chemically invalid because of a fractional
\* element subscript inside a group
C6_WitnessNested ==
    /\ "is_chem_valid" \in called
    /\ ~chem
    /\ \E i \in DOMAIN parsed.value :
          /\ parsed.value[i].kind = "Group"
          /\ \E k \in DOMAIN ElementCounts(parsed.value[i].components) :
                ~IsIntegral(ElementCounts(parsed.value[i].components)[k])

----------------------------------------------------------------------------
(* C7 *)

Typed == "composition_type" \in called

Validated == "validate" \in called

\* the composition type the top-level counts alone determine
TypeOfCounts(values) ==
    IF \A i \in DOMAIN values : values[i].m > 0 /\ values[i].m < Pow10(values[i].e)
    THEN "WEIGHT_FRACTION"
    ELSE IF \A i \in DOMAIN values : values[i].e = 0 /\ values[i].m >= 1
    THEN "STOICHIOMETRIC"
    ELSE "UNKNOWN"

\* C7: composition_type() is a function of the top-level counts alone:
\* WEIGHT_FRACTION if all lie strictly between 0 and 1, else STOICHIOMETRIC if
\* all are integers >= 1, else UNKNOWN; UNKNOWN when the code did not parse; a
\* single count of exactly 1.0 is STOICHIOMETRIC.
C7_CompositionType ==
    Typed =>
        /\ ctype = IF material.composition.ok
                   THEN TypeOfCounts(top_counts(material.composition.value))
                   ELSE "UNKNOWN"
        /\ material.composition.ok /\ top_counts(material.composition.value) = <<One>>
              => ctype = "STOICHIOMETRIC"

\* a weight-fraction material whose groups hold integral counts >= 2: the
\* nested counts did not decide the type
C7_Witness ==
    /\ Typed
    /\ ctype = "WEIGHT_FRACTION"
    /\ Len(material.composition.value) = 2
    /\ \A i \in DOMAIN material.composition.value :
          /\ material.composition.value[i].kind = "Group"
          /\ material.composition.value[i].components[1].count.m >= 2
          /\ IsIntegral(material.composition.value[i].components[1].count)

----------------------------------------------------------------------------
(* C8 *)

\* 1.0 in units of 1e-7, in which the subscripts of Parts are whole numbers
OneInUnits == Pow10(7)

\* a count in units of 1e-7
InUnits(x) == x.m * (OneInUnits \div Pow10(x.e))

RECURSIVE TotalUnits(_)
TotalUnits(values) ==
    IF values = <<>> THEN 0 ELSE InUnits(Head(values)) + TotalUnits(Tail(values))

\* |sum of the top-level counts - 1.0| >= 1e-6
OffByTolerance(values) ==
    Abs(TotalUnits(values) - OneInUnits) >= OneInUnits \div Pow10(ToleranceDigits)

IsSumMismatch(e) == "got" \in DOMAIN e

Errors == IF verdict.ok THEN <<>> ELSE verdict.error

\* C8: for a WEIGHT_FRACTION material with two or more top-level components,
\* validate() reports the sum mismatch exactly when |sum - 1.0| >= 1e-6.
C8_SumTolerance ==
    /\ Validated
    /\ composition_type(material) = "WEIGHT_FRACTION"
    /\ Len(material.composition.value) >= 2
    => /\ (\E i \in DOMAIN Errors : IsSumMismatch(Errors[i]))
             <=> OffByTolerance(top_counts(material.composition.value))
       /\ material.density >= 0 /\ ~OffByTolerance(top_counts(material.composition.value))
             => verdict.ok

\* two fractions that add up to 1.2: WEIGHT_FRACTION, and validate() fails
C8_Witness ==
    /\ Validated
    /\ Typed
    /\ ctype = "WEIGHT_FRACTION"
    /\ Len(material.composition.value) = 2
    /\ TotalUnits(top_counts(material.composition.value)) = 12 * (OneInUnits \div 10)
    /\ ~verdict.ok
    /\ IsSumMismatch(verdict.error[1])

\* two fractions that add up to 0.9999999: within the tolerance, validate()
\* succeeds
C8_WitnessWithin ==
    /\ Validated
    /\ material.composition.ok
    /\ Len(material.composition.value) = 2
    /\ TotalUnits(top_counts(material.composition.value)) = OneInUnits - 1
    /\ verdict.ok

----------------------------------------------------------------------------
(* C9 *)

\* C9: a Material whose code does not parse keeps the parser's Failure in
\* composition, and validate() fails with that very failure in its list and
\* without the "could not be classified" error.
C9_ParseFailureKept ==
    ~from_string(material.code).ok =>
        /\ material.composition = from_string(material.code)
        /\ Validated =>
              /\ ~verdict.ok
              /\ \E i \in DOMAIN verdict.error : verdict.error[i] = material.composition.error
              /\ \A i \in DOMAIN verdict.error : verdict.error[i] # Unclassifiable

\* validate() of a material whose code has an unmatched '('
C9_Witness ==
    /\ Validated
    /\ ~material.composition.ok
    /\ material.composition.error.kind = "unmatched ("
    /\ material.density >= 0
    /\ verdict = Failure(<<material.composition.error>>)

----------------------------------------------------------------------------
(* C10 *)

\* the composition of a material is defective: it did not parse, its type is
\* UNKNOWN, or it is a weight fraction whose counts break the sum rules
Defective(m) ==
    \/ ~m.composition.ok
    \/ TypeOfCounts(top_counts(m.composition.value)) = "UNKNOWN"
    \/ /\ TypeOfCounts(top_counts(m.composition.value)) = "WEIGHT_FRACTION"
       /\ \/ Len(m.composition.value) = 1
          \/ OffByTolerance(top_counts(m.composition.value))

IsCompositionError(e) == e \notin {EmptyCode, NegativeDensity}

Where(test(_)) == {i \in DOMAIN Errors : test(Errors[i])}

IsEmptyCode(e) == e = EmptyCode

IsNegativeDensity(e) == e = NegativeDensity

\* C10: validate() reports every defect: the empty-code error iff code == "",
\* the negative-density error iff density < 0, a composition error iff the
\* composition is defective, in that order, each once; it succeeds iff there
\* is none, so a density of exactly 0.0 is accepted.
C10_AllDefects ==
    Validated =>
        /\ Where(IsEmptyCode) # {} <=> material.code = <<>>
        /\ Where(IsNegativeDensity) # {} <=> material.density < 0
        /\ Where(IsCompositionError) # {} <=> Defective(material)
        /\ Cardinality(Where(IsEmptyCode)) <= 1
        /\ Cardinality(Where(IsNegativeDensity)) <= 1
        /\ Cardinality(Where(IsCompositionError)) <= 1
        /\ \A i \in Where(IsEmptyCode), j \in Where(IsNegativeDensity) : i < j
        /\ \A i \in Where(IsEmptyCode) \cup Where(IsNegativeDensity),
              j \in Where(IsCompositionError) : i < j
        /\ verdict.ok <=>
              material.code # <<>> /\ material.density >= 0 /\ ~Defective(material)
        /\ verdict.ok => verdict.value = <<>>

\* validate() of a material with an empty code and a negative density: three
\* errors in one result
C10_Witness ==
    /\ Validated
    /\ material.code = <<>>
    /\ material.density < 0
    /\ ~verdict.ok
    /\ Len(verdict.error) = 3

\* a valid material of density exactly 0.0
C10_WitnessZeroDensity ==
    /\ Validated
    /\ material.density = 0
    /\ verdict.ok

----------------------------------------------------------------------------
(* Vocabulary of the properties of sections and profiles *)

\* the errors of a result; none for a Success
ErrorsOf(result) == IF result.ok THEN <<>> ELSE result.error

IsGroup(e) == e.exc = "ExceptionGroup"

\* the group "field material" that directly wraps what Material.validate()
\* returned, or nothing when the material is valid
MaterialGroup(mat) ==
    IF validate(mat).ok THEN <<>>
    ELSE <<ExceptionGroup(<<"field material">>, validate(mat).error)>>

ThicknessDefect(sec) ==
    IF sec.thickness > 0 THEN <<>> ELSE <<ThicknessError(sec.thickness)>>

ProfileValidated == "Profile.validate" \in called

VariantValidated == "samplmodls.Profile.validate" \in called

Flattened == "Profile.flatten" \in called

----------------------------------------------------------------------------
(* C11 *)

\* C11 as stated: Medium/Substrate.validate() fails exactly with the one group
\* "field material" that directly wraps the errors of Material.validate();
\* Layer.validate() fails exactly with that same one-level group, when the
\* material is invalid, followed by the thickness error, when the thickness is
\* not > 0, each reported whether or not the other is
C11_AsWritten ==
    /\ "Medium.validate" \in called =>
           ErrorsOf(outcome) = MaterialGroup(section.material)
    /\ "Layer.validate" \in called =>
           ErrorsOf(outcome) = MaterialGroup(section.material) \o ThicknessDefect(section)

----------------------------------------------------------------------------
(* C12 *)

\* the 1-based positions of the layers of a MultiLayer whose validate() fails
FailingLayers(ml) == {i \in DOMAIN ml.layers : ~Layer_validate(ml.layers[i]).ok}

RepeatDefect(ml) == IF ml.repeat < 1 THEN 1 ELSE 0

\* C12: MultiLayer.validate() returns Success iff no layer fails and
\* repeat >= 1; otherwise its Failure holds one group per failing layer, tagged
\* with the layer's 0-based index and holding that layer's errors, in increasing
\* index order, followed by the repeat error when repeat < 1, and nothing else
C12_MultiLayerErrors ==
    "MultiLayer.validate" \in called =>
        LET failing == FailingLayers(section)
            n == Cardinality(failing) + RepeatDefect(section)
        IN  /\ outcome.ok <=> n = 0
            /\ Len(ErrorsOf(outcome)) = n
            /\ \A i \in failing :
                   outcome.error[Cardinality({j \in failing : j <= i})] =
                       ExceptionGroup(<<"field layers", i - 1>>,
                                      Layer_validate(section.layers[i]).error)
            /\ section.repeat < 1 => outcome.error[n] = RepeatError(section.repeat)

\* a MultiLayer whose first layer is valid, whose second is not, and whose
\* repeat is below 1: two errors, the group of layers[1] and the repeat error
C12_Witness ==
    /\ "MultiLayer.validate" \in called
    /\ Len(section.layers) = 2
    /\ FailingLayers(section) = {2}
    /\ section.repeat < 1
    /\ Len(ErrorsOf(outcome)) = 2
    /\ outcome.error[1].message = <<"field layers", 1>>

\* a MultiLayer both of whose layers fail while its repeat is valid
C12_WitnessTwoLayers ==
    /\ "MultiLayer.validate" \in called
    /\ FailingLayers(section) = {1, 2}
    /\ section.repeat >= 1
    /\ ~outcome.ok

----------------------------------------------------------------------------
(* C13 *)

HasError(result, e) == \E i \in DOMAIN ErrorsOf(result) : ErrorsOf(result)[i] = e

\* C13 as stated: for a profile of fewer than 2 sections both Profile classes
\* return Failure and report a profile-length error
C13_AsWritten ==
    (section = NoSection /\ Len(profile) < 2) =>
        /\ ProfileValidated => ~outcome.ok /\ HasError(outcome, TooShort)
        /\ VariantValidated =>
               ~variant.ok /\ (HasError(variant, NoSections) \/ HasError(variant, TooShort))

----------------------------------------------------------------------------
(* C14 *)

SubstrateAt(p) == {i \in DOMAIN p : IsSubstrate(p[i])}

\* exactly one Substrate and it is the final section
SubstrateTerminated(p) == p # <<>> /\ SubstrateAt(p) = {Len(p)}

\* C14: a Profile whose validate() returns Success holds exactly one Substrate,
\* as its final section; hence a Substrate at a non-final index, two or more
\* Substrates, or none, give Failure
C14_SubstrateLast ==
    ProfileValidated =>
        /\ outcome.ok => SubstrateTerminated(profile)
        /\ (\/ \E i \in SubstrateAt(profile) : i # Len(profile)
            \/ Cardinality(SubstrateAt(profile)) >= 2
            \/ SubstrateAt(profile) = {}) => ~outcome.ok

\* a valid profile of three sections with a MultiLayer in it
C14_Witness ==
    /\ ProfileValidated
    /\ outcome.ok
    /\ Len(profile) = 3
    /\ \E i \in DOMAIN profile : IsMultiLayer(profile[i])

\* a profile of valid sections that fails for its two Substrates alone
C14_WitnessTwoSubstrates ==
    /\ ProfileValidated
    /\ Len(profile) = 3
    /\ SubstrateAt(profile) = {2, 3}
    /\ ErrorsOf(outcome) = <<MisplacedSubstrate(1)>>

----------------------------------------------------------------------------
(* C15 *)

ReportsMisplaced(result) ==
    \E i \in DOMAIN ErrorsOf(result) :
        /\ ~IsGroup(ErrorsOf(result)[i])
        /\ ErrorsOf(result)[i].message = MisplacedSubstrate(0).message

ReportsMissing(result) == HasError(result, MissingSubstrate)

\* C15 as stated: among the profiles a caller can have validated there is one
\* for which one validate() call reports both the misplaced-substrate error
\* and the missing-substrate error
C15_AsWritten ==
    ProfileValidated =>
        \E p \in Profiles :
            ReportsMisplaced(Profile_validate(p)) /\ ReportsMissing(Profile_validate(p))

\* C15 amended: the misplaced-substrate error is reported for exactly the
\* Substrates at a non-final index, the missing-substrate error exactly when
\* the profile holds no Substrate, and so never both in one result
C15_Exclusive ==
    ProfileValidated =>
        /\ \A i \in DOMAIN profile :
               HasError(outcome, MisplacedSubstrate(i - 1))
                   <=> (IsSubstrate(profile[i]) /\ i # Len(profile))
        /\ ReportsMissing(outcome) <=> SubstrateAt(profile) = {}
        /\ ~(ReportsMisplaced(outcome) /\ ReportsMissing(outcome))

\* a Substrate followed by other sections and no final Substrate: the
\* misplaced-substrate error alone
C15_Witness ==
    /\ ProfileValidated
    /\ SubstrateAt(profile) = {1}
    /\ Len(profile) >= 2
    /\ ReportsMisplaced(outcome)
    /\ ~ReportsMissing(outcome)

\* no Substrate among two or more sections: the missing-substrate error alone
C15_WitnessMissing ==
    /\ ProfileValidated
    /\ Len(profile) >= 2
    /\ SubstrateAt(profile) = {}
    /\ ReportsMissing(outcome)
    /\ ~ReportsMisplaced(outcome)

----------------------------------------------------------------------------
(* C16 *)

\* the number of entries a section contributes to the flattened list
Width(sec) ==
    IF IsMultiLayer(sec)
    THEN (IF sec.repeat > 0 THEN sec.repeat ELSE 0) * Len(sec.layers)
    ELSE 1

\* the number of entries contributed by the sections before the i-th
RECURSIVE Offset(_, _)
Offset(p, i) == IF i <= 1 THEN 0 ELSE Offset(p, i - 1) + Width(p[i - 1])

\* C16: Profile.flatten() holds, for each section in order, the section itself
\* if it is not a MultiLayer and otherwise repeat copies of its layers, one
\* after the other; so its length is the number of the other sections plus
\* the sum of repeat * len(layers) over the MultiLayers (of repeat >= 1; a
\* MultiLayer of repeat < 1 contributes nothing)
C16_Flatten ==
    Flattened =>
        /\ Len(flat) = Offset(profile, Len(profile) + 1)
        /\ \A i \in DOMAIN profile :
               \A k \in 1..Width(profile[i]) :
                   flat[Offset(profile, i) + k] =
                       IF IsMultiLayer(profile[i])
                       THEN profile[i].layers[((k - 1) % Len(profile[i].layers)) + 1]
                       ELSE profile[i]

\* a Layer, a MultiLayer of two layers repeated twice, a Substrate: 1 + 2 * 2 + 1
C16_Witness ==
    /\ Flattened
    /\ Len(profile) = 3
    /\ ~IsMultiLayer(profile[1])
    /\ IsMultiLayer(profile[2])
    /\ profile[2].repeat = 2
    /\ Len(profile[2].layers) = 2
    /\ IsSubstrate(profile[3])
    /\ Len(flat) = 6
    /\ flat[4] = profile[2].layers[1]

\* a MultiLayer of repeat below 1 between two other sections leaves no entry
C16_WitnessNoCopies ==
    /\ Flattened
    /\ Len(profile) = 3
    /\ IsMultiLayer(profile[2])
    /\ profile[2].repeat < 1
    /\ flat = <<profile[1], profile[3]>>

----------------------------------------------------------------------------
(* C17 *)

\* C17: no call of validate() or flatten() changes the receiver or anything
\* reachable from it: the section, or the profile with its sections, their
\* layers, repeat, thickness and Material (code, density, composition), are
\* after every call what they were before it
C17_Frame == [][section' = section /\ profile' = profile]_vars

\* a profile with a MultiLayer in it after validate() and flatten() were both
\* called on it, validate() having met defects and flatten() having returned a
\* list that differs from the profile
C17_Witness ==
    /\ ProfileValidated
    /\ Flattened
    /\ \E i \in DOMAIN profile : IsMultiLayer(profile[i])
    /\ ~outcome.ok
    /\ flat # profile

----------------------------------------------------------------------------
(* C20 *)

\* C20 as stated: every Failure of Formula.from_string carries the source
\* index at which it occurred, and holds nothing but the error
C20_AsWritten ==
    (Parsed /\ ~parsed.ok) =>
        /\ "index" \in DOMAIN parsed.error
        /\ DOMAIN parsed = {"ok", "error"}

----------------------------------------------------------------------------
(* C24 *)

\* the 1-based positions of the sections of a profile whose validate() fails
FailingSections(p) == {i \in DOMAIN p : ~section_validate(p[i]).ok}

\* the groups among the errors of a result, in the order they are reported
GroupsOf(result) == SelectSeq(ErrorsOf(result), IsGroup)

\* C24: the errors Profile.validate() reports hold exactly one group per
\* section whose validate() fails, tagged with the section's 0-based index and
\* holding the error list that section's validate() returned, unchanged, in
\* increasing index order; a section after a failing one is validated too
C24_SectionGroups ==
    ProfileValidated =>
        LET failing == FailingSections(profile)
            groups == GroupsOf(outcome)
        IN  /\ Len(groups) = Cardinality(failing)
            /\ \A i \in failing :
                   groups[Cardinality({j \in failing : j <= i})] =
                       ExceptionGroup(<<"field section", i - 1>>,
                                      section_validate(profile[i]).error)

\* a profile whose first and last sections fail and whose middle one does
\* not, the first one a MultiLayer that reports a group of its own
C24_Witness ==
    /\ ProfileValidated
    /\ FailingSections(profile) = {1, 3}
    /\ IsMultiLayer(profile[1])
    /\ IsSubstrate(profile[3])
    /\ Len(GroupsOf(outcome)) = 2
    /\ GroupsOf(outcome)[2].message = <<"field section", 2>>
    /\ \E k \in DOMAIN GroupsOf(outcome)[1].exceptions :
           IsGroup(GroupsOf(outcome)[1].exceptions[k])

----------------------------------------------------------------------------
(* C25 *)

\* the formula of the material has one top-level component, with a count
\* strictly between 0 and 1
SingleProperFraction ==
    /\ material.composition.ok
    /\ Len(material.composition.value) = 1
    /\ IsProperFraction(material.composition.value[1].count)

\* C25: validate() of a Material whose formula has exactly one top-level
\* component, with a count strictly between 0 and 1, returns Failure, and the
\* Failure holds the single-component weight-fraction error
C25_SingleFraction ==
    (Validated /\ SingleProperFraction) =>
        /\ ~verdict.ok
        /\ \E k \in DOMAIN verdict.error : verdict.error[k] = SingleFraction

\* a single group with a fractional count was validated: the single-component
\* error is the only one
C25_Witness ==
    /\ Validated
    /\ SingleProperFraction
    /\ material.composition.value[1].kind = "Group"
    /\ Errors = <<SingleFraction>>

\* a single element with a fractional count and a negative density
C25_WitnessElement ==
    /\ Validated
    /\ SingleProperFraction
    /\ material.composition.value[1].kind = "Element"
    /\ Errors = <<NegativeDensity, SingleFraction>>

----------------------------------------------------------------------------
(* C26 *)

\* C26 as stated: a Material whose validate() returns Success has at least
\* one chemical element in its parsed composition
C26_AsWritten ==
    (Validated /\ verdict.ok) => elems_of(material.composition.value) # <<>>

----------------------------------------------------------------------------
(* C27 *)

\* validate() returned Success for a material composition_type() called
\* STOICHIOMETRIC
ValidStoichiometric ==
    /\ Validated
    /\ Typed
    /\ verdict.ok
    /\ ctype = "STOICHIOMETRIC"

\* C27 as stated: a validated STOICHIOMETRIC material satisfies
\* is_chem_valid(): no element at any depth has a fractional subscript
C27_AsWritten ==
    ValidStoichiometric => is_chem_valid(material.composition.value)

\* C27: in a validated STOICHIOMETRIC material every top-level count, of an
\* element or of a group, is an integer >= 1; the subscripts of the elements
\* inside the groups are not constrained, so is_chem_valid() holds iff it holds
\* of the components of every top-level group
C27_TopLevel ==
    ValidStoichiometric =>
        LET formula == material.composition.value
        IN  /\ \A i \in DOMAIN formula :
                   IsIntegral(formula[i].count) /\ formula[i].count.m >= 1
            /\ is_chem_valid(formula) <=>
                   \A i \in DOMAIN formula :
                       formula[i].kind = "Group" => is_chem_valid(formula[i].components)

\* a validated STOICHIOMETRIC material with an element of fractional
\* subscript inside a group
C27_Witness ==
    /\ ValidStoichiometric
    /\ ~is_chem_valid(material.composition.value)
    /\ \E i \in DOMAIN material.composition.value :
           /\ material.composition.value[i].kind = "Group"
           /\ material.composition.value[i].count.m = 2

\* a validated STOICHIOMETRIC material that is chemically valid, with a group
C27_WitnessValid ==
    /\ ValidStoichiometric
    /\ is_chem_valid(material.composition.value)
    /\ \E i \in DOMAIN material.composition.value :
           /\ material.composition.value[i].kind = "Group"
           /\ material.composition.value[i].components # <<>>

----------------------------------------------------------------------------
(* C28 *)

\* C28 as stated: the flattened list of a profile whose validate() returned
\* Success holds no MultiLayer, ends with the profile's Substrate, and holds
\* before it Layers of thickness > 0 only, and at least one of them
C28_AsWritten ==
    (ProfileValidated /\ Flattened /\ outcome.ok) =>
        /\ \A k \in DOMAIN flat : ~IsMultiLayer(flat[k])
        /\ flat # <<>>
        /\ flat[Len(flat)] = profile[Len(profile)]
        /\ IsSubstrate(flat[Len(flat)])
        /\ \A k \in 1..(Len(flat) - 1) :
               flat[k].kind = "Layer" /\ flat[k].thickness > 0
        /\ Len(flat) >= 2

----------------------------------------------------------------------------
(* C29 *)

\* C29 as stated: in every reachable state of a Material, after assignments
\* to its code and calls of its methods, composition is
\* Formula.from_string(code)
C29_AsWritten == material.composition = from_string(material.code)

----------------------------------------------------------------------------
(* C30 *)

ArgsValidated == "LayerArgs.validate" \in called

\* the same arguments with a roughness that is not above the limit
WithLowSigma(self) == [self EXCEPT !.sigma = Some(SigmaLimit)]

\* C30 as stated: validate() returns the high-roughness warning only for
\* arguments that validate without it, so that arguments without tr that fail
\* with sigma <= 5 fail with sigma > 5 too; arguments with both sigma and tr
\* fail
C30_AsWritten ==
    ArgsValidated =>
        /\ (report.ok /\ report.value # Nothing) =>
               LayerArgs_validate(WithLowSigma(args)).ok
        /\ (args.sigma # Nothing /\ args.tr # Nothing) => ~report.ok

----------------------------------------------------------------------------
(* Vocabulary of the properties of a stepwise run *)

\* parse_section is at a character that is neither ')' nor past the end
Dispatching ==
    /\ Running("parse_section", "loop")
    /\ Top.index < Len(source)
    /\ At(source, Top.index) # ")"

\* the step calls fn on the character parse_section is at
Enters(fn) ==
    /\ Len(frames') = Len(frames) + 1
    /\ frames'[Len(frames')].fn = fn
    /\ frames'[Len(frames')].start = Top.index

\* the step makes the executing call return Failure of this kind and index
Fails(kind, index) ==
    /\ Len(frames') = Len(frames) - 1
    /\ ret'.result = Failure(ValueError(kind, index))

\* parse_section has its extractor's result in hand
ExtractorReturned == Running("parse_section", "got")

\* the number of extract_group calls that have not returned
Depth == Cardinality({i \in DOMAIN frames : frames[i].fn = "extract_group"})

----------------------------------------------------------------------------
(* C21 *)

\* C21 as stated: at a character that is neither ')' nor the end,
\* parse_section calls the element extractor on an uppercase letter, the group
\* extractor on '(', and on any other character, a lowercase letter included,
\* returns Failure 'unexpected character' citing the character's index
C21_AsWritten ==
    [][Dispatching =>
          IF isupper(At(source, Top.index)) THEN Enters("extract_component")
          ELSE IF At(source, Top.index) = "(" THEN Enters("extract_group")
          ELSE Fails("unexpected character", Top.index)]_vars

\* C21: at a character that is neither ')' nor the end, parse_section calls
\* the element extractor on any letter, uppercase or lowercase, the group
\* extractor on '(', and on any other character (a digit, '.', '/') returns
\* Failure 'unexpected character' citing the character's index; the element
\* extractor called on a letter that is not uppercase returns Failure
\* 'element symbol must start with an uppercase letter' citing that index
C21_Dispatch ==
    [][/\ Dispatching =>
             IF isalpha(At(source, Top.index)) THEN Enters("extract_component")
             ELSE IF At(source, Top.index) = "(" THEN Enters("extract_group")
             ELSE Fails("unexpected character", Top.index)
       /\ (Running("extract_component", "enter") /\ ~isupper(At(source, Top.start))) =>
             Fails("element must start uppercase", Top.start)]_vars

\* the element extractor was called on a lowercase letter inside a group
C21_Witness ==
    /\ Running("extract_component", "enter")
    /\ islower(At(source, Top.start))
    /\ Top.start > 0
    /\ Depth = 1

\* parse_section returned 'unexpected character' for a '/' after an element
C21_WitnessOther ==
    /\ Running("parse_formula", "got")
    /\ ~ret.result.ok
    /\ ret.result.error.kind = "unexpected character"
    /\ ret.result.error.index > 0
    /\ At(source, ret.result.error.index) = "/"

----------------------------------------------------------------------------
(* C22 *)

\* C22: every Success an extractor returns to parse_section holds a next
\* index greater than the index it was called at and at most len(source),
\* and no call of a run ever returns the 'No progress made' Failure
C22_Progress ==
    /\ (ExtractorReturned /\ ret.result.ok) =>
           /\ ret.result.value[2] > Top.index
           /\ ret.result.value[2] <= Len(source)
    /\ (ret # NotCalled /\ ~ret.result.ok) => ret.result.error.kind # "no progress"

\* extract_group, called inside another group, returned a Group to
\* parse_section
C22_Witness ==
    /\ ExtractorReturned
    /\ ret.result.ok
    /\ ret.result.value[1].kind = "Group"
    /\ Top.index > 0

\* extract_component returned an Element that ends the source
C22_WitnessElement ==
    /\ ExtractorReturned
    /\ ret.result.ok
    /\ ret.result.value[1].kind = "Element"
    /\ ret.result.value[2] = Len(source)
    /\ ret.result.value[2] = Top.index + 3

----------------------------------------------------------------------------
(* C23 *)

C23_WitnessDeep ==
    /\ Depth = 2
    /\ Count(source, "(") = 2

====
